---- MODULE Spec2Model ----
(***************************************************************************)
(* Library service counter: the discrete-event engine of gui_pyqt5.py      *)
(* (class Simulacion with Evento, Cliente, Empleado and IntegradorEuler)   *)
(* and the sorted future-event list of eventos.py (class ListaEventos).    *)
(*                                                                         *)
(* Time is counted in tenths of a minute, the Euler step h_euler = 0.1, so *)
(* that every time of the engine is an integer.  Floating-point rounding   *)
(* is not modelled: times are exact.  Uniform draws are percentages        *)
(* (0..99 stands for [0,1)).  None is modelled by -1 (every time and every *)
(* reference of the engine is >= 0).  Objects are references: a Cliente is *)
(* an index into the store "clientes", an Empleado is 1 or 2.              *)
(***************************************************************************)
EXTENDS Integers, Sequences, FiniteSets, TLC

None == -1

\* ---- bounds of the model ------------------------------------------------
\* The source fixes capacidad_maxima = 20 and tiempo_maximo = 480.0 (4800
\* tenths) and takes max_iteraciones from the configuration (1..100000).  The
\* model runs the same code with small values, so that capacity, the horizon
\* and the iteration cap are all reached within a few events;
\* max_iteraciones ranges over 1..MaxIteraciones.
capacidad_maxima == 4
tiempo_maximo == 30
MaxIteraciones == 7
\* pushes tried on a future-event list on its own
MaxPushes == 4
\* events added to a ListaEventos on which cancelar_evento is tried
MaxAgregados == 3
\* calls of ejecutar_paso tried after it has returned None
MaxRellamadas == 2
\* SimulacionThread objects running at the same time
MaxThreads == 2
\* rates K (-1, 0 and 1..MaxK) and page targets (1..MaxPaginas) tried on an
\* IntegradorEuler on its own
MaxK == 5
MaxPaginas == 4

\* ---- parameters and fixed values (tenths of a minute, percent) ----------
TiemposEntreLlegadas == {10, 40}
prob_pedir_libro == 45
prob_devolver_libro == 45
tiempo_consulta_min == 20
tiempo_consulta_max == 50
prob_retirarse == 60
K_100_200 == 100
K_200_300 == 90
K_300_plus == 70
media_busqueda == 60
tiempo_devolucion_min == 15
tiempo_devolucion_max == 25
paginas_min == 100
paginas_max == 350
h_euler == 1

\* draws of random.random() tried by the model, in percent
RndObjetivo == {20, 60, 95}
RndServicio == {0, 50}
RndDecision == {30, 80}
RndPaginas == {0, 60}

\* ---- IntegradorEuler ----------------------------------------------------
\* After n calls of paso(), p = n * h * K / 5 and t = n * h: with h = 0.1 a
\* step adds K / 50 pages, so p is compared in fiftieths of a page, and t
\* advances by h (one time unit).  The loop of integrar_hasta_paginas,
\*     while self.p < paginas_objetivo and pasos_dados < max_pasos,
\* goes on after n steps exactly when SiguePaso holds; for K >= 0 (p does not
\* decrease) it stops at the one n where it no longer holds but held at n - 1.
SiguePaso(K, n, paginas_objetivo, max_pasos) ==
    n * h_euler * K < 50 * paginas_objetivo /\ n < max_pasos

PasosDados(K, paginas_objetivo, max_pasos) ==
    CHOOSE n \in 0..max_pasos :
        /\ ~SiguePaso(K, n, paginas_objetivo, max_pasos)
        /\ (n = 0 \/ SiguePaso(K, n - 1, paginas_objetivo, max_pasos))

\* max_pasos = int(paginas_objetivo / h * 1.5), with h = 0.1; returns self.t
integrar_hasta_paginas(K, paginas_objetivo) ==
    h_euler * PasosDados(K, paginas_objetivo, (15 * paginas_objetivo) \div h_euler)

\* ---- Evento and heapq ---------------------------------------------------
\* "orden" is not a field of the source: it numbers the insertions, so that
\* properties about insertion order can be stated.  No operation reads it.
Evento(tiempo, tipo, cliente, empleado, orden) ==
    [tiempo |-> tiempo, tipo |-> tipo, cliente |-> cliente,
     empleado |-> empleado, orden |-> orden]

\* Evento.__lt__
EventoLt(a, b) == a.tiempo < b.tiempo

\* heap positions are 0-based as in heapq; At(h, i) is heap[i]
At(h, i) == h[i + 1]
Put(h, i, x) == [h EXCEPT ![i + 1] = x]

\* heapq._siftdown(heap, startpos, pos), newitem = heap[pos] on entry
RECURSIVE SiftDownLoop(_, _, _, _)
SiftDownLoop(h, startpos, pos, newitem) ==
    IF pos > startpos
    THEN LET parentpos == (pos - 1) \div 2
             parent == At(h, parentpos)
         IN IF EventoLt(newitem, parent)
            THEN SiftDownLoop(Put(h, pos, parent), startpos, parentpos, newitem)
            ELSE Put(h, pos, newitem)
    ELSE Put(h, pos, newitem)

SiftDown(h, startpos, pos) == SiftDownLoop(h, startpos, pos, At(h, pos))

\* heapq._siftup(heap, pos): bubble the smaller child up to a leaf, then
\* sift the displaced item down from there
RECURSIVE SiftUpLoop(_, _, _, _)
SiftUpLoop(h, startpos, pos, newitem) ==
    LET endpos == Len(h)
        childpos == 2 * pos + 1
        rightpos == childpos + 1
        chosen == IF rightpos < endpos /\ ~EventoLt(At(h, childpos), At(h, rightpos))
                  THEN rightpos ELSE childpos
    IN IF childpos < endpos
       THEN SiftUpLoop(Put(h, pos, At(h, chosen)), startpos, chosen, newitem)
       ELSE SiftDownLoop(Put(h, pos, newitem), startpos, pos, newitem)

SiftUp(h, pos) == SiftUpLoop(h, pos, pos, At(h, pos))

heappush_sin_siftdown(h, item) == Append(h, item)

\* heapq.heappush
heappush(h, item) == SiftDown(Append(h, item), 0, Len(h))

\* heapq.heappop on a non-empty heap: <<returned item, heap afterwards>>
heappop(h) ==
    LET lastelt == h[Len(h)]
        rest == SubSeq(h, 1, Len(h) - 1)
    IN IF rest # <<>>
       THEN <<rest[1], SiftUp(Put(rest, 0, lastelt), 0)>>
       ELSE <<lastelt, rest>>

\* ---- ListaEventos (eventos.py) ------------------------------------------
\* list.sort() is stable: appending and sorting puts the new event after
\* every event that is not greater than it (Evento.__lt__ of eventos.py).
RECURSIVE InsertarOrdenado(_, _)
InsertarOrdenado(l, e) ==
    IF l = <<>> THEN <<e>>
    ELSE IF EventoLt(e, l[Len(l)])
         THEN Append(InsertarOrdenado(SubSeq(l, 1, Len(l) - 1), e), l[Len(l)])
         ELSE Append(l, e)

ListaAgregarEvento(l, e) == InsertarOrdenado(l, e)

\* the conditions given to cancelar_evento: None, or a function of the event
Condiciones == {"None", "tiempo_mayor_que_10", "cliente_es_1"}

\* condicion(e), for a condicion that is not None
condicion_vale(condicion, e) ==
    IF condicion = "tiempo_mayor_que_10" THEN e.tiempo > 10 ELSE e.cliente = 1

cancelar_evento_sin_condicion(l, tipo, condicion) ==
    LET queda(e) == e.tipo # tipo
    IN SelectSeq(l, queda)

\* ListaEventos.cancelar_evento
cancelar_evento(l, tipo, condicion) ==
    IF condicion = "None"
    THEN LET queda(e) == e.tipo # tipo
         IN SelectSeq(l, queda)
    ELSE LET queda(e) == ~(e.tipo = tipo /\ condicion_vale(condicion, e))
         IN SelectSeq(l, queda)

VARIABLES
    tiempo_entre_llegadas,
    max_iteraciones,
    reloj,
    eventos,
    clientes,
    clientes_activos,
    cola_espera,
    clientes_leyendo,
    empleados,
    contador_clientes,
    numero_fila,
    ac_tiempo_permanencia,
    total_clientes_atendidos,
    total_clientes_leyendo,
    total_clientes_generados,
    total_clientes_rechazados,
    biblioteca_cerrada,
    tiempo_biblioteca_cerrada_ac,
    tiempo_inicio_cerrada,
    historial_filas,
    pc,
    inserciones,
    lista,
    extraidos_heap,
    extraidos_lista,
    euler_K,
    euler_paginas_objetivo,
    euler_p,
    euler_t,
    euler_pasos_dados,
    euler_pc,
    gen_prob_pedir_libro,
    gen_prob_devolver_libro,
    gen_rnd,
    gen_resultado,
    s_prob_pedir,
    s_prob_devolver,
    s_prob_consultar,
    s_cons_min,
    s_cons_max,
    parametros,
    resultado_dialogo,
    ultimo_mensaje,
    parametros_simulacion,
    btn_ejecutar_habilitado,
    simulacion,
    thread,
    threads_corriendo,
    simulacion_id,
    config,
    vars_params,
    ventana_destruida,
    callback_llamado,
    error_mostrado,
    cancelacion

\* an IntegradorEuler on its own: its fields K, p and t, and the argument
\* paginas_objetivo and the local pasos_dados of integrar_hasta_paginas
eulerVars == <<euler_K, euler_paginas_objetivo, euler_p, euler_t,
               euler_pasos_dados, euler_pc>>

\* generar_objetivo on its own: the two probabilities it reads, the draw of
\* random.random() and the tuple it returns
genVars == <<gen_prob_pedir_libro, gen_prob_devolver_libro, gen_rnd, gen_resultado>>

\* ConfiguracionWindow: the five fields aceptar validates, self.parametros,
\* the result of exec_() and the last QMessageBox shown
dialogoVars == <<s_prob_pedir, s_prob_devolver, s_prob_consultar, s_cons_min,
                 s_cons_max, parametros, resultado_dialogo, ultimo_mensaje>>

\* MainWindow: self.parametros_simulacion, whether btn_ejecutar is enabled,
\* the parameters self.simulacion was built with and which Simulacion object
\* it is (0 for None), the parameters of the simulation self.thread was
\* started on, and the Simulacion objects whose SimulacionThread is running
ventanaVars == <<parametros_simulacion, btn_ejecutar_habilitado, simulacion,
                 thread, threads_corriendo, simulacion_id>>

\* VentanaConfiguracion (tkinter): the shared config object, the texts of the
\* entry fields, whether the window was destroyed, whether the callback was
\* called and whether messagebox.showerror was shown
tkVars == <<config, vars_params, ventana_destruida, callback_llamado,
            error_mostrado>>

\* what the engine never touches; cancelacion holds the arguments of
\* ListaEventos.cancelar_evento when it was the last operation on the list
auxVars == <<genVars, dialogoVars, ventanaVars, tkVars, cancelacion>>


vars == <<tiempo_entre_llegadas, max_iteraciones, reloj, eventos, clientes, clientes_activos,
          cola_espera, clientes_leyendo, empleados, contador_clientes,
          numero_fila, ac_tiempo_permanencia, total_clientes_atendidos,
          total_clientes_leyendo, total_clientes_generados,
          total_clientes_rechazados, biblioteca_cerrada,
          tiempo_biblioteca_cerrada_ac, tiempo_inicio_cerrada,
          historial_filas, pc, inserciones, lista, extraidos_heap,
          extraidos_lista, euler_K, euler_paginas_objetivo, euler_p, euler_t,
          euler_pasos_dados, euler_pc, gen_prob_pedir_libro,
          gen_prob_devolver_libro, gen_rnd, gen_resultado, s_prob_pedir,
          s_prob_devolver, s_prob_consultar, s_cons_min, s_cons_max,
          parametros, resultado_dialogo, ultimo_mensaje,
          parametros_simulacion, btn_ejecutar_habilitado, simulacion, thread,
          threads_corriendo, simulacion_id, config, vars_params, ventana_destruida,
          callback_llamado, error_mostrado, cancelacion>>

\* ---- Cliente and Empleado -----------------------------------------------
\* dataclass Cliente with its defaults (tabla_euler, the step table of the
\* integrator, is left out: nothing of the engine reads it)
Cliente(id, hora_llegada, objetivo, rnd_objetivo, estado) ==
    [id |-> id, hora_llegada |-> hora_llegada, objetivo |-> objetivo,
     rnd_objetivo |-> rnd_objetivo,
     rnd_tiempo_consulta |-> 0, tiempo_consulta |-> 0,
     rnd_tiempo_busqueda |-> 0, tiempo_busqueda |-> 0,
     rnd_tiempo_devolucion |-> 0, tiempo_devolucion |-> 0,
     fin_atencion_emp1 |-> None, fin_atencion_emp2 |-> None,
     se_retira |-> FALSE, rnd_decision |-> None,
     paginas_a_leer |-> 0, rnd_paginas |-> None,
     tiempo_lectura |-> 0, fin_lectura |-> None,
     estado |-> estado, hora_salida |-> None]

\* Empleado.__init__
Empleado(id) ==
    [id |-> id, estado |-> "Libre", cliente_actual |-> None,
     hora_fin_atencion |-> None, tiempo_acumulado_atencion |-> 0,
     tiempo_acumulado_ocioso |-> 0, ultimo_cambio_estado |-> 0]

esta_libre(emp) == emp.estado = "Libre"

\* Empleado.atender
atender_sin_acumular_ocioso(emp, cliente, tiempo_fin, ahora) ==
    [emp EXCEPT
        !.estado = "Ocupado",
        !.cliente_actual = cliente,
        !.hora_fin_atencion = tiempo_fin,
        !.ultimo_cambio_estado = ahora]

atender(emp, cliente, tiempo_fin, ahora) ==
    [emp EXCEPT
        !.tiempo_acumulado_ocioso =
            IF emp.estado = "Libre" THEN @ + (ahora - emp.ultimo_cambio_estado) ELSE @,
        !.estado = "Ocupado",
        !.cliente_actual = cliente,
        !.hora_fin_atencion = tiempo_fin,
        !.ultimo_cambio_estado = ahora]

liberar_sin_marca(emp, ahora) ==
    [emp EXCEPT
        !.tiempo_acumulado_atencion =
            IF emp.estado = "Ocupado" THEN @ + (ahora - emp.ultimo_cambio_estado) ELSE @,
        !.estado = "Libre",
        !.cliente_actual = None,
        !.hora_fin_atencion = None]

\* Empleado.liberar: cliente = self.cliente_actual ... return cliente (the
\* engine does not use the returned customer)
liberar_retorno(emp) == emp.cliente_actual

\* Empleado.liberar: the clerk it leaves
liberar(emp, ahora) ==
    [emp EXCEPT
        !.tiempo_acumulado_atencion =
            IF emp.estado = "Ocupado" THEN @ + (ahora - emp.ultimo_cambio_estado) ELSE @,
        !.estado = "Libre",
        !.cliente_actual = None,
        !.hora_fin_atencion = None,
        !.ultimo_cambio_estado = ahora]

\* ---- Simulacion: the engine state as one record -------------------------
\* The handlers are functions from engine state to engine state, composed as
\* the methods call each other; the actions below assign the result to the
\* variables.  dato_cliente is evento.datos['cliente'] of the event being
\* processed (a local of ejecutar_paso, read by _capturar_estado).
Estado ==
    [tiempo_entre_llegadas |-> tiempo_entre_llegadas,
     max_iteraciones |-> max_iteraciones, reloj |-> reloj,
     eventos |-> eventos, clientes |-> clientes,
     clientes_activos |-> clientes_activos, cola_espera |-> cola_espera,
     clientes_leyendo |-> clientes_leyendo, empleados |-> empleados,
     contador_clientes |-> contador_clientes, numero_fila |-> numero_fila,
     ac_tiempo_permanencia |-> ac_tiempo_permanencia,
     total_clientes_atendidos |-> total_clientes_atendidos,
     total_clientes_leyendo |-> total_clientes_leyendo,
     total_clientes_generados |-> total_clientes_generados,
     total_clientes_rechazados |-> total_clientes_rechazados,
     biblioteca_cerrada |-> biblioteca_cerrada,
     tiempo_biblioteca_cerrada_ac |-> tiempo_biblioteca_cerrada_ac,
     tiempo_inicio_cerrada |-> tiempo_inicio_cerrada,
     historial_filas |-> historial_filas, inserciones |-> inserciones,
     dato_cliente |-> None]

\* "x in lista" and "lista.remove(x)" on lists of Cliente compare by the
\* dataclass's generated __eq__, that is field by field
Contiene(s, l, c) == \E i \in 1..Len(l) : s.clientes[l[i]] = s.clientes[c]

Quitar(s, l, c) ==
    IF Contiene(s, l, c)
    THEN LET i == CHOOSE k \in 1..Len(l) :
                    /\ s.clientes[l[k]] = s.clientes[c]
                    /\ \A j \in 1..(k - 1) : s.clientes[l[j]] # s.clientes[c]
         IN SubSeq(l, 1, i - 1) \o SubSeq(l, i + 1, Len(l))
    ELSE l

\* Simulacion.determinar_K
determinar_K(num_paginas) ==
    IF 100 <= num_paginas /\ num_paginas <= 200 THEN K_100_200
    ELSE IF 200 < num_paginas /\ num_paginas <= 300 THEN K_200_300
    ELSE K_300_plus

objetivo_segun_con_igual(rnd, p_pedir, p_devolver) ==
    IF rnd <= p_pedir THEN "Pedir libro"
    ELSE IF rnd <= p_pedir + p_devolver THEN "Devolver libro"
    ELSE "Consultar"

\* Simulacion.generar_objetivo: the intent for a draw, given
\* self.prob_pedir_libro and self.prob_devolver_libro
objetivo_segun(rnd, p_pedir, p_devolver) ==
    IF rnd < p_pedir THEN "Pedir libro"
    ELSE IF rnd < p_pedir + p_devolver THEN "Devolver libro"
    ELSE "Consultar"

\* Simulacion.generar_objetivo with the probabilities of the engine
generar_objetivo(rnd) == objetivo_segun(rnd, prob_pedir_libro, prob_devolver_libro)

\* Simulacion.generar_tiempo_consulta
generar_tiempo_consulta(rnd) ==
    tiempo_consulta_min + ((tiempo_consulta_max - tiempo_consulta_min) * rnd) \div 100

\* Simulacion.generar_tiempo_busqueda: -media * log(1 - rnd), tabulated for
\* the draws of RndServicio and media_busqueda = 6.0 (0 at rnd = 0, 4.16
\* minutes at rnd = 0.5)
generar_tiempo_busqueda(rnd) == IF rnd = 0 THEN 0 ELSE (media_busqueda * 7) \div 10

\* Simulacion.generar_tiempo_devolucion
generar_tiempo_devolucion(rnd) ==
    tiempo_devolucion_min + ((tiempo_devolucion_max - tiempo_devolucion_min) * rnd) \div 100

\* Simulacion.agregar_evento
agregar_evento(s, tiempo, tipo, cliente, empleado) ==
    [s EXCEPT !.eventos = heappush(@, Evento(tiempo, tipo, cliente, empleado,
                                             s.inserciones + 1)),
              !.inserciones = @ + 1]

\* Simulacion._obtener_empleado_libre
obtener_empleado_libre(s) ==
    IF esta_libre(s.empleados[1]) THEN 1
    ELSE IF esta_libre(s.empleados[2]) THEN 2
    ELSE None

atender_cliente_sin_estado(s, c, e, rnd) ==
    LET objetivo == s.clientes[c].objetivo
        tiempo_atencion ==
            IF objetivo = "Consultar" THEN generar_tiempo_consulta(rnd)
            ELSE IF objetivo = "Pedir libro" THEN generar_tiempo_busqueda(rnd)
            ELSE generar_tiempo_devolucion(rnd)
        tiempo_fin == s.reloj + tiempo_atencion
        s1 == [s EXCEPT !.clientes[c].estado = "En cola",
                        !.empleados[e] = atender(@, c, tiempo_fin, s.reloj)]
    IN agregar_evento(s1, tiempo_fin, "fin_atencion_cliente", c, e)

atender_cliente_sin_sumar_reloj(s, c, e, rnd) ==
    LET objetivo == s.clientes[c].objetivo
        tiempo_atencion ==
            IF objetivo = "Consultar" THEN generar_tiempo_consulta(rnd)
            ELSE IF objetivo = "Pedir libro" THEN generar_tiempo_busqueda(rnd)
            ELSE generar_tiempo_devolucion(rnd)
        tiempo_fin == tiempo_atencion
        c1 == [s.clientes[c] EXCEPT
                 !.estado = "Siendo atendido",
                 !.tiempo_consulta = IF objetivo = "Consultar" THEN tiempo_atencion ELSE @,
                 !.rnd_tiempo_consulta = IF objetivo = "Consultar" THEN rnd ELSE @,
                 !.tiempo_busqueda = IF objetivo = "Pedir libro" THEN tiempo_atencion ELSE @,
                 !.rnd_tiempo_busqueda = IF objetivo = "Pedir libro" THEN rnd ELSE @,
                 !.tiempo_devolucion = IF objetivo = "Devolver libro" THEN tiempo_atencion ELSE @,
                 !.rnd_tiempo_devolucion = IF objetivo = "Devolver libro" THEN rnd ELSE @,
                 !.fin_atencion_emp1 = IF e = 1 THEN tiempo_fin ELSE @,
                 !.fin_atencion_emp2 = IF e = 1 THEN @ ELSE tiempo_fin]
        s1 == [s EXCEPT !.clientes[c] = c1,
                        !.empleados[e] = atender(@, c, tiempo_fin, s.reloj)]
    IN agregar_evento(s1, tiempo_fin, "fin_atencion_cliente", c, e)

\* Simulacion._atender_cliente
atender_cliente(s, c, e, rnd) ==
    LET objetivo == s.clientes[c].objetivo
        tiempo_atencion ==
            IF objetivo = "Consultar" THEN generar_tiempo_consulta(rnd)
            ELSE IF objetivo = "Pedir libro" THEN generar_tiempo_busqueda(rnd)
            ELSE generar_tiempo_devolucion(rnd)
        tiempo_fin == s.reloj + tiempo_atencion
        c1 == [s.clientes[c] EXCEPT
                 !.estado = "Siendo atendido",
                 !.tiempo_consulta = IF objetivo = "Consultar" THEN tiempo_atencion ELSE @,
                 !.rnd_tiempo_consulta = IF objetivo = "Consultar" THEN rnd ELSE @,
                 !.tiempo_busqueda = IF objetivo = "Pedir libro" THEN tiempo_atencion ELSE @,
                 !.rnd_tiempo_busqueda = IF objetivo = "Pedir libro" THEN rnd ELSE @,
                 !.tiempo_devolucion = IF objetivo = "Devolver libro" THEN tiempo_atencion ELSE @,
                 !.rnd_tiempo_devolucion = IF objetivo = "Devolver libro" THEN rnd ELSE @,
                 !.fin_atencion_emp1 = IF e = 1 THEN tiempo_fin ELSE @,
                 !.fin_atencion_emp2 = IF e = 1 THEN @ ELSE tiempo_fin]
        s1 == [s EXCEPT !.clientes[c] = c1,
                        !.empleados[e] = atender(@, c, tiempo_fin, s.reloj)]
    IN agregar_evento(s1, tiempo_fin, "fin_atencion_cliente", c, e)

cliente_sale_sin_reabrir(s, c) ==
    LET cl == s.clientes[c]
    IN [s EXCEPT
          !.clientes_activos = Quitar(s, s.clientes_activos, c),
          !.ac_tiempo_permanencia =
              IF cl.hora_salida # None /\ cl.hora_salida # 0
              THEN @ + (cl.hora_salida - cl.hora_llegada) ELSE @,
          !.total_clientes_atendidos = @ + 1]

cliente_sale_sin_permanencia(s, c) ==
    LET activos == Quitar(s, s.clientes_activos, c)
        reabre == s.biblioteca_cerrada /\ Len(activos) < capacidad_maxima
    IN [s EXCEPT
          !.clientes_activos = activos,
          !.total_clientes_atendidos = @ + 1,
          !.biblioteca_cerrada = IF reabre THEN FALSE ELSE @,
          !.tiempo_inicio_cerrada = IF reabre THEN None ELSE @]

\* Simulacion._cliente_sale
cliente_sale_sin_contar(s, c) ==
    LET activos == Quitar(s, s.clientes_activos, c)
        cl == s.clientes[c]
        sale == cl.hora_salida # None /\ cl.hora_salida # 0
        reabre == s.biblioteca_cerrada /\ Len(activos) < capacidad_maxima
    IN [s EXCEPT
          !.clientes_activos = activos,
          !.ac_tiempo_permanencia =
              IF sale THEN @ + (cl.hora_salida - cl.hora_llegada) ELSE @,
          !.biblioteca_cerrada = IF reabre THEN FALSE ELSE @,
          !.tiempo_inicio_cerrada = IF reabre THEN None ELSE @]

cliente_sale(s, c) ==
    LET activos == Quitar(s, s.clientes_activos, c)
        cl == s.clientes[c]
        sale == cl.hora_salida # None /\ cl.hora_salida # 0
        reabre == s.biblioteca_cerrada /\ Len(activos) < capacidad_maxima
    IN [s EXCEPT
          !.clientes_activos = activos,
          !.ac_tiempo_permanencia =
              IF sale THEN @ + (cl.hora_salida - cl.hora_llegada) ELSE @,
          !.total_clientes_atendidos = @ + 1,
          !.biblioteca_cerrada = IF reabre THEN FALSE ELSE @,
          !.tiempo_inicio_cerrada = IF reabre THEN None ELSE @]

\* Simulacion.procesar_llegada_cliente, both branches: the next arrival
programar_proxima_llegada_en_horizonte(s) ==
    IF s.reloj + s.tiempo_entre_llegadas <= tiempo_maximo
    THEN agregar_evento(s, s.reloj + s.tiempo_entre_llegadas,
                        "llegada_cliente", None, None)
    ELSE s

programar_proxima_llegada(s) ==
    agregar_evento(s, s.reloj + s.tiempo_entre_llegadas, "llegada_cliente", None, None)

llegada_rechazada_en_cola(s) ==
    LET s1 == [s EXCEPT !.total_clientes_generados = @ + 1,
                        !.total_clientes_rechazados = @ + 1]
        s2 == programar_proxima_llegada(s1)
        rechazado == Cliente(s2.total_clientes_generados, s2.reloj,
                             "Consultar", 0, "RECHAZADO")
    IN [s2 EXCEPT !.clientes = Append(@, rechazado),
                  !.cola_espera = Append(@, Len(s2.clientes) + 1),
                  !.dato_cliente = Len(s2.clientes) + 1]

llegada_rechazada_con_contador(s) ==
    LET s1 == [s EXCEPT !.total_clientes_generados = @ + 1,
                        !.total_clientes_rechazados = @ + 1,
                        !.contador_clientes = @ + 1]
        s2 == programar_proxima_llegada(s1)
        rechazado == Cliente(s2.total_clientes_generados, s2.reloj,
                             "Consultar", 0, "RECHAZADO")
    IN [s2 EXCEPT !.clientes = Append(@, rechazado),
                  !.dato_cliente = Len(s2.clientes) + 1]

\* Simulacion.procesar_llegada_cliente, the branch taken at full capacity
llegada_rechazada(s) ==
    LET s1 == [s EXCEPT !.total_clientes_generados = @ + 1,
                        !.total_clientes_rechazados = @ + 1]
        s2 == programar_proxima_llegada(s1)
        rechazado == Cliente(s2.total_clientes_generados, s2.reloj,
                             "Consultar", 0, "RECHAZADO")
    IN [s2 EXCEPT !.clientes = Append(@, rechazado),
                  !.dato_cliente = Len(s2.clientes) + 1]

llegada_admitida_solo_empleado1(s, rnd_objetivo, rnd_servicio) ==
    LET c == Len(s.clientes) + 1
        s1 == [s EXCEPT
                 !.total_clientes_generados = @ + 1,
                 !.contador_clientes = @ + 1,
                 !.clientes = Append(@, Cliente(s.contador_clientes + 1, s.reloj,
                                                generar_objetivo(rnd_objetivo),
                                                rnd_objetivo, "En cola")),
                 !.clientes_activos = Append(@, c),
                 !.dato_cliente = c]
        llena == Len(s1.clientes_activos) >= capacidad_maxima
        s2 == [s1 EXCEPT !.biblioteca_cerrada = IF llena THEN TRUE ELSE @,
                         !.tiempo_inicio_cerrada = IF llena THEN s1.reloj ELSE @]
        s3 == IF esta_libre(s2.empleados[1])
              THEN atender_cliente(s2, c, 1, rnd_servicio)
              ELSE [s2 EXCEPT !.cola_espera = Append(@, c),
                              !.clientes[c].estado = "En cola"]
    IN programar_proxima_llegada(s3)

\* Simulacion.procesar_llegada_cliente, the branch that admits the customer
llegada_admitida(s, rnd_objetivo, rnd_servicio) ==
    LET c == Len(s.clientes) + 1
        s1 == [s EXCEPT
                 !.total_clientes_generados = @ + 1,
                 !.contador_clientes = @ + 1,
                 !.clientes = Append(@, Cliente(s.contador_clientes + 1, s.reloj,
                                                generar_objetivo(rnd_objetivo),
                                                rnd_objetivo, "En cola")),
                 !.clientes_activos = Append(@, c),
                 !.dato_cliente = c]
        llena == Len(s1.clientes_activos) >= capacidad_maxima
        s2 == [s1 EXCEPT !.biblioteca_cerrada = IF llena THEN TRUE ELSE @,
                         !.tiempo_inicio_cerrada = IF llena THEN s1.reloj ELSE @]
        empleado_libre == obtener_empleado_libre(s2)
        s3 == IF empleado_libre # None
              THEN atender_cliente(s2, c, empleado_libre, rnd_servicio)
              ELSE [s2 EXCEPT !.cola_espera = Append(@, c),
                              !.clientes[c].estado = "En cola"]
    IN programar_proxima_llegada(s3)

procesar_llegada_sin_tope(s, rnd_objetivo, rnd_servicio) ==
    llegada_admitida(s, rnd_objetivo, rnd_servicio)

\* Simulacion.procesar_llegada_cliente
procesar_llegada_cliente(s, rnd_objetivo, rnd_servicio) ==
    IF Len(s.clientes_activos) >= capacidad_maxima
    THEN llegada_rechazada(s)
    ELSE llegada_admitida(s, rnd_objetivo, rnd_servicio)

fin_atencion_cliente_todos_salen(s, c, rnd_decision, rnd_paginas) ==
    cliente_sale([s EXCEPT
                    !.clientes[c].rnd_decision =
                        IF s.clientes[c].objetivo = "Pedir libro" THEN rnd_decision ELSE @,
                    !.clientes[c].estado = "Fuera del sistema",
                    !.clientes[c].hora_salida = s.reloj], c)

fin_atencion_cliente_salida_relativa(s, c, rnd_decision, rnd_paginas) ==
    IF s.clientes[c].objetivo = "Pedir libro"
    THEN IF rnd_decision < prob_retirarse
         THEN cliente_sale([s EXCEPT !.clientes[c].rnd_decision = rnd_decision,
                                     !.clientes[c].se_retira = TRUE,
                                     !.clientes[c].estado = "Fuera del sistema",
                                     !.clientes[c].hora_salida =
                                    s.reloj - s.clientes[c].hora_llegada], c)
         ELSE LET paginas == paginas_min
                             + ((paginas_max - paginas_min) * rnd_paginas) \div 100
                  tiempo_lectura ==
                      integrar_hasta_paginas(determinar_K(paginas), paginas)
                  s1 == [s EXCEPT
                           !.clientes[c].rnd_decision = rnd_decision,
                           !.clientes[c].se_retira = FALSE,
                           !.clientes[c].estado = "Leyendo",
                           !.clientes[c].rnd_paginas = rnd_paginas,
                           !.clientes[c].paginas_a_leer = paginas,
                           !.clientes[c].tiempo_lectura = tiempo_lectura,
                           !.clientes[c].fin_lectura = s.reloj + tiempo_lectura,
                           !.clientes_leyendo = Append(@, c),
                           !.total_clientes_leyendo = @ + 1]
              IN agregar_evento(s1, s.reloj + tiempo_lectura, "fin_lectura", c, None)
    ELSE cliente_sale([s EXCEPT !.clientes[c].estado = "Fuera del sistema",
                                !.clientes[c].hora_salida =
                                    s.reloj - s.clientes[c].hora_llegada], c)

\* Simulacion.procesar_fin_atencion, after empleado.liberar: what becomes of
\* the customer whose service ended
fin_atencion_cliente_sin_programar_lectura(s, c, rnd_decision, rnd_paginas) ==
    IF s.clientes[c].objetivo = "Pedir libro"
    THEN IF rnd_decision < prob_retirarse
         THEN cliente_sale([s EXCEPT !.clientes[c].rnd_decision = rnd_decision,
                                     !.clientes[c].se_retira = TRUE,
                                     !.clientes[c].estado = "Fuera del sistema",
                                     !.clientes[c].hora_salida = s.reloj], c)
         ELSE LET paginas == paginas_min
                             + ((paginas_max - paginas_min) * rnd_paginas) \div 100
                  tiempo_lectura ==
                      integrar_hasta_paginas(determinar_K(paginas), paginas)
                  s1 == [s EXCEPT
                           !.clientes[c].rnd_decision = rnd_decision,
                           !.clientes[c].se_retira = FALSE,
                           !.clientes[c].estado = "Leyendo",
                           !.clientes[c].rnd_paginas = rnd_paginas,
                           !.clientes[c].paginas_a_leer = paginas,
                           !.clientes[c].tiempo_lectura = tiempo_lectura,
                           !.clientes[c].fin_lectura = s.reloj + tiempo_lectura,
                           !.clientes_leyendo = Append(@, c),
                           !.total_clientes_leyendo = @ + 1]
              IN s1
    ELSE cliente_sale([s EXCEPT !.clientes[c].estado = "Fuera del sistema",
                                !.clientes[c].hora_salida = s.reloj], c)

fin_atencion_cliente(s, c, rnd_decision, rnd_paginas) ==
    IF s.clientes[c].objetivo = "Pedir libro"
    THEN IF rnd_decision < prob_retirarse
         THEN cliente_sale([s EXCEPT !.clientes[c].rnd_decision = rnd_decision,
                                     !.clientes[c].se_retira = TRUE,
                                     !.clientes[c].estado = "Fuera del sistema",
                                     !.clientes[c].hora_salida = s.reloj], c)
         ELSE LET paginas == paginas_min
                             + ((paginas_max - paginas_min) * rnd_paginas) \div 100
                  tiempo_lectura ==
                      integrar_hasta_paginas(determinar_K(paginas), paginas)
                  s1 == [s EXCEPT
                           !.clientes[c].rnd_decision = rnd_decision,
                           !.clientes[c].se_retira = FALSE,
                           !.clientes[c].estado = "Leyendo",
                           !.clientes[c].rnd_paginas = rnd_paginas,
                           !.clientes[c].paginas_a_leer = paginas,
                           !.clientes[c].tiempo_lectura = tiempo_lectura,
                           !.clientes[c].fin_lectura = s.reloj + tiempo_lectura,
                           !.clientes_leyendo = Append(@, c),
                           !.total_clientes_leyendo = @ + 1]
              IN agregar_evento(s1, s.reloj + tiempo_lectura, "fin_lectura", c, None)
    ELSE cliente_sale([s EXCEPT !.clientes[c].estado = "Fuera del sistema",
                                !.clientes[c].hora_salida = s.reloj], c)

procesar_fin_atencion_ultimo_de_la_cola(s, evento, rnd_decision, rnd_paginas, rnd_servicio) ==
    LET c == evento.cliente
        e == evento.empleado
        s1 == [s EXCEPT !.empleados[e] = liberar(@, s.reloj), !.dato_cliente = c]
        s2 == fin_atencion_cliente(s1, c, rnd_decision, rnd_paginas)
        n == Len(s2.cola_espera)
    IN IF s2.cola_espera # <<>> /\ esta_libre(s2.empleados[e])
       THEN atender_cliente([s2 EXCEPT !.cola_espera = SubSeq(@, 1, n - 1)],
                            s2.cola_espera[n], e, rnd_servicio)
       ELSE s2

\* Simulacion.procesar_fin_atencion
procesar_fin_atencion_sin_tomar_cola(s, evento, rnd_decision, rnd_paginas, rnd_servicio) ==
    LET c == evento.cliente
        e == evento.empleado
        s1 == [s EXCEPT !.empleados[e] = liberar(@, s.reloj), !.dato_cliente = c]
    IN fin_atencion_cliente(s1, c, rnd_decision, rnd_paginas)

procesar_fin_atencion(s, evento, rnd_decision, rnd_paginas, rnd_servicio) ==
    LET c == evento.cliente
        e == evento.empleado
        s1 == [s EXCEPT !.empleados[e] = liberar(@, s.reloj), !.dato_cliente = c]
        s2 == fin_atencion_cliente(s1, c, rnd_decision, rnd_paginas)
    IN IF s2.cola_espera # <<>> /\ esta_libre(s2.empleados[e])
       THEN atender_cliente([s2 EXCEPT !.cola_espera = Tail(@)],
                            Head(s2.cola_espera), e, rnd_servicio)
       ELSE s2

procesar_fin_lectura_sin_devolucion(s, evento, rnd_servicio) ==
    LET c == evento.cliente
    IN cliente_sale([s EXCEPT !.clientes_leyendo = Quitar(s, @, c),
                              !.clientes[c].estado = "Fuera del sistema",
                              !.clientes[c].hora_salida = s.reloj,
                              !.dato_cliente = c], c)

\* Simulacion.procesar_fin_lectura
procesar_fin_lectura_sin_quitar(s, evento, rnd_servicio) ==
    LET c == evento.cliente
        s1 == [s EXCEPT !.clientes[c].objetivo = "Devolver libro",
                        !.dato_cliente = c]
        empleado_libre == obtener_empleado_libre(s1)
    IN IF empleado_libre # None
       THEN atender_cliente([s1 EXCEPT !.clientes[c].estado = "Siendo atendido"],
                            c, empleado_libre, rnd_servicio)
       ELSE [s1 EXCEPT !.clientes[c].estado = "En cola",
                       !.cola_espera = Append(@, c)]

procesar_fin_lectura(s, evento, rnd_servicio) ==
    LET c == evento.cliente
        s1 == [s EXCEPT !.clientes_leyendo = Quitar(s, @, c),
                        !.clientes[c].objetivo = "Devolver libro",
                        !.dato_cliente = c]
        empleado_libre == obtener_empleado_libre(s1)
    IN IF empleado_libre # None
       THEN atender_cliente([s1 EXCEPT !.clientes[c].estado = "Siendo atendido"],
                            c, empleado_libre, rnd_servicio)
       ELSE [s1 EXCEPT !.clientes[c].estado = "En cola",
                       !.cola_espera = Append(@, c)]

\* Simulacion._capturar_estado: the row of the state table.  "clientes" holds
\* deep copies of the active customers; the columns that only repeat fields
\* of the event's customer for display are left out.
RECURSIVE ProximaLlegada(_)
ProximaLlegada(proximos) ==
    IF proximos = <<>> THEN None
    ELSE IF Head(proximos).tipo = "llegada_cliente" THEN Head(proximos).tiempo
    ELSE ProximaLlegada(Tail(proximos))

\* sorted(self.eventos, key=lambda e: e.tiempo)[:3]: a stable sort of the heap
RECURSIVE OrdenarPorTiempo(_)
OrdenarPorTiempo(h) ==
    IF h = <<>> THEN <<>>
    ELSE InsertarOrdenado(OrdenarPorTiempo(SubSeq(h, 1, Len(h) - 1)), h[Len(h)])

capturar_estado(s, tipo) ==
    LET ordenados == OrdenarPorTiempo(s.eventos)
        proximos == SubSeq(ordenados, 1, IF Len(ordenados) < 3 THEN Len(ordenados) ELSE 3)
    IN [n |-> s.numero_fila,
        evento |-> <<tipo, IF s.dato_cliente # None /\ tipo # "inicializacion"
                           THEN s.clientes[s.dato_cliente].id ELSE None>>,
        reloj |-> s.reloj,
        proxima_llegada |-> IF tipo # "inicializacion" THEN ProximaLlegada(proximos)
                            ELSE s.tiempo_entre_llegadas,
        empleado1_estado |-> s.empleados[1].estado,
        empleado1_ac_atencion |-> s.empleados[1].tiempo_acumulado_atencion,
        empleado1_ac_ocioso |-> s.empleados[1].tiempo_acumulado_ocioso,
        empleado2_estado |-> s.empleados[2].estado,
        empleado2_ac_atencion |-> s.empleados[2].tiempo_acumulado_atencion,
        empleado2_ac_ocioso |-> s.empleados[2].tiempo_acumulado_ocioso,
        estado_biblioteca |-> IF s.biblioteca_cerrada THEN "Cerrada" ELSE "Abierta",
        cola |-> Len(s.cola_espera),
        ac_tiempo_permanencia |-> s.ac_tiempo_permanencia,
        ac_clientes_leyendo |-> s.total_clientes_leyendo,
        clientes |-> [i \in 1..Len(s.clientes_activos) |->
                          s.clientes[s.clientes_activos[i]]]]

iniciar_en_horizonte(s) ==
    LET s1 == [s EXCEPT !.numero_fila = 0]
        s2 == [s1 EXCEPT !.historial_filas =
                             Append(@, capturar_estado(s1, "inicializacion")),
                         !.numero_fila = 1]
    IN IF s2.tiempo_entre_llegadas <= tiempo_maximo
       THEN agregar_evento(s2, s2.tiempo_entre_llegadas, "llegada_cliente", None, None)
       ELSE s2

\* Simulacion.iniciar
iniciar(s) ==
    LET s1 == [s EXCEPT !.numero_fila = 0]
        s2 == [s1 EXCEPT !.historial_filas =
                             Append(@, capturar_estado(s1, "inicializacion")),
                         !.numero_fila = 1]
    IN agregar_evento(s2, s2.tiempo_entre_llegadas, "llegada_cliente", None, None)

\* Simulacion.ejecutar_paso from the dequeued event on: the closed time
\* accrued past the horizon, the clock, the dispatch (given as the handler's
\* result on the state with the clock advanced), the snapshot and the row count
tras_horizonte(s, evento) ==
    IF s.reloj > tiempo_maximo /\ s.tiempo_inicio_cerrada # None
    THEN [s EXCEPT !.tiempo_biblioteca_cerrada_ac = @ + (evento.tiempo - s.reloj)]
    ELSE s

avanzar_reloj(s, resto, evento) ==
    [tras_horizonte(s, evento) EXCEPT !.eventos = resto, !.reloj = evento.tiempo]

registrar_fila_con_alias(s, tipo) ==
    LET vivo(copia) ==
            CHOOSE c \in DOMAIN s.clientes :
                /\ s.clientes[c].id = copia.id
                /\ s.clientes[c].hora_llegada = copia.hora_llegada
        con_alias(fila) ==
            [fila EXCEPT !.clientes = [j \in DOMAIN @ |-> s.clientes[vivo(@[j])]]]
    IN [s EXCEPT !.historial_filas =
                     Append([i \in 1..Len(@) |-> con_alias(@[i])],
                            capturar_estado(s, tipo)),
                 !.numero_fila = @ + 1]

registrar_fila(s, tipo) ==
    [s EXCEPT !.historial_filas = Append(@, capturar_estado(s, tipo)),
              !.numero_fila = @ + 1]

\* Simulacion.ejecutar_paso: "if self.numero_fila > self.max_iteraciones"
tope_alcanzado_desde_igual(s) == s.numero_fila >= s.max_iteraciones

tope_alcanzado(s) == s.numero_fila > s.max_iteraciones

\* Simulacion.ejecutar_paso at the iteration cap
forzar_fin(s) ==
    LET s1 == IF s.biblioteca_cerrada /\ s.tiempo_inicio_cerrada # None
              THEN [s EXCEPT !.tiempo_biblioteca_cerrada_ac =
                                 @ + (tiempo_maximo - s.reloj)]
              ELSE s
    IN [s1 EXCEPT !.historial_filas = Append(@, capturar_estado(s1, "fin_simulacion"))]

\* ---- the state machine --------------------------------------------------
\* Simulacion.__init__, without the integrator
InitSimulacion ==
    /\ tiempo_entre_llegadas \in TiemposEntreLlegadas
    /\ max_iteraciones \in 1..MaxIteraciones
    /\ reloj = 0
    /\ eventos = <<>>
    /\ clientes = <<>>
    /\ clientes_activos = <<>>
    /\ cola_espera = <<>>
    /\ clientes_leyendo = <<>>
    /\ empleados = <<Empleado(1), Empleado(2)>>
    /\ contador_clientes = 0
    /\ numero_fila = 0
    /\ ac_tiempo_permanencia = 0
    /\ total_clientes_atendidos = 0
    /\ total_clientes_leyendo = 0
    /\ total_clientes_generados = 0
    /\ total_clientes_rechazados = 0
    /\ biblioteca_cerrada = FALSE
    /\ tiempo_biblioteca_cerrada_ac = 0
    /\ tiempo_inicio_cerrada = None
    /\ historial_filas = <<>>
    /\ pc = "construida"
    /\ inserciones = 0
    /\ lista = <<>>
    /\ extraidos_heap = <<>>
    /\ extraidos_lista = <<>>

\* no IntegradorEuler is tried on its own
InitSinIntegrador ==
    /\ euler_K = None
    /\ euler_paginas_objetivo = None
    /\ euler_p = None
    /\ euler_t = None
    /\ euler_pasos_dados = None
    /\ euler_pc = "sin_integrador"

\* generar_objetivo is not tried on its own
InitGen ==
    /\ gen_prob_pedir_libro = None
    /\ gen_prob_devolver_libro = None
    /\ gen_rnd = None
    /\ gen_resultado = <<>>

\* a dict of parameters that is None
SinParametros ==
    [prob_pedir_libro |-> None, prob_devolver_libro |-> None,
     prob_consultar |-> None, tiempo_consulta_min |-> None,
     tiempo_consulta_max |-> None]

\* no window exists
InitSinVentana ==
    /\ s_prob_pedir = None
    /\ s_prob_devolver = None
    /\ s_prob_consultar = None
    /\ s_cons_min = None
    /\ s_cons_max = None
    /\ parametros = SinParametros
    /\ resultado_dialogo = "sin_dialogo"
    /\ ultimo_mensaje = "ninguno"
    /\ parametros_simulacion = SinParametros
    /\ btn_ejecutar_habilitado = FALSE
    /\ simulacion = SinParametros
    /\ thread = SinParametros
    /\ threads_corriendo = {}
    /\ simulacion_id = 0

\* no VentanaConfiguracion exists
InitSinVentanaConfiguracion ==
    /\ config = <<>>
    /\ vars_params = <<>>
    /\ ventana_destruida = FALSE
    /\ callback_llamado = FALSE
    /\ error_mostrado = FALSE
    /\ cancelacion = <<>>

InitAux == InitGen /\ InitSinVentana /\ InitSinVentanaConfiguracion

\* Simulacion.__init__; the future-event lists tried on their own are empty
\* and no IntegradorEuler is tried on its own
Init ==
    /\ InitSimulacion
    /\ InitSinIntegrador
    /\ InitAux

felVars == <<lista, extraidos_heap, extraidos_lista>>

Asignar(s) ==
    /\ reloj' = s.reloj
    /\ eventos' = s.eventos
    /\ clientes' = s.clientes
    /\ clientes_activos' = s.clientes_activos
    /\ cola_espera' = s.cola_espera
    /\ clientes_leyendo' = s.clientes_leyendo
    /\ empleados' = s.empleados
    /\ contador_clientes' = s.contador_clientes
    /\ numero_fila' = s.numero_fila
    /\ ac_tiempo_permanencia' = s.ac_tiempo_permanencia
    /\ total_clientes_atendidos' = s.total_clientes_atendidos
    /\ total_clientes_leyendo' = s.total_clientes_leyendo
    /\ total_clientes_generados' = s.total_clientes_generados
    /\ total_clientes_rechazados' = s.total_clientes_rechazados
    /\ biblioteca_cerrada' = s.biblioteca_cerrada
    /\ tiempo_biblioteca_cerrada_ac' = s.tiempo_biblioteca_cerrada_ac
    /\ tiempo_inicio_cerrada' = s.tiempo_inicio_cerrada
    /\ historial_filas' = s.historial_filas
    /\ inserciones' = s.inserciones
    /\ UNCHANGED <<tiempo_entre_llegadas, max_iteraciones, felVars, eulerVars,
                   auxVars>>

\* ejecutar_completa / SimulacionThread.run: iniciar, then ejecutar_paso
\* until it returns None
Iniciar ==
    /\ pc = "construida"
    /\ Asignar(iniciar(Estado))
    /\ pc' = "ejecutando"

\* ejecutar_paso gets past the iteration cap and dequeues an event
HayEvento ==
    /\ pc = "ejecutando"
    /\ ~tope_alcanzado(Estado)
    /\ eventos # <<>>

ProximoEvento == heappop(eventos)[1]
Reanudado == avanzar_reloj(Estado, heappop(eventos)[2], ProximoEvento)

PasoLlegada ==
    /\ HayEvento
    /\ ProximoEvento.tipo = "llegada_cliente"
    /\ \E rnd_objetivo \in RndObjetivo, rnd_servicio \in RndServicio :
          Asignar(registrar_fila(
              procesar_llegada_cliente(Reanudado, rnd_objetivo, rnd_servicio),
              "llegada_cliente"))
    /\ pc' = pc

PasoFinAtencion ==
    /\ HayEvento
    /\ ProximoEvento.tipo = "fin_atencion_cliente"
    /\ \E rnd_decision \in RndDecision, rnd_paginas \in RndPaginas,
          rnd_servicio \in RndServicio :
          Asignar(registrar_fila(
              procesar_fin_atencion(Reanudado, ProximoEvento, rnd_decision,
                                    rnd_paginas, rnd_servicio),
              "fin_atencion_cliente"))
    /\ pc' = pc

PasoFinLectura ==
    /\ HayEvento
    /\ ProximoEvento.tipo = "fin_lectura"
    /\ \E rnd_servicio \in RndServicio :
          Asignar(registrar_fila(
              procesar_fin_lectura(Reanudado, ProximoEvento, rnd_servicio),
              "fin_lectura"))
    /\ pc' = pc

\* ejecutar_paso returns None: at the iteration cap, after the closing row,
\* or on an empty future-event list; ejecutar_completa then returns
PasoRetornaNone ==
    /\ pc = "ejecutando"
    /\ IF tope_alcanzado(Estado)
       THEN Asignar(forzar_fin(Estado))
       ELSE eventos = <<>> /\ Asignar(Estado)
    /\ pc' = "retornada"

Next ==
    \/ Iniciar
    \/ PasoLlegada
    \/ PasoFinAtencion
    \/ PasoFinLectura
    \/ PasoRetornaNone

Spec == Init /\ [][Next]_vars

\* ejecutar_completa and SimulacionThread.run call iniciar and then
\* ejecutar_paso in a "while True" loop until it returns None, and every call
\* completes: until the return, the next call is always made.  Avance is a
\* step of Next as seen on pc and numero_fila (iniciar, an event step, a
\* return of None); fairness is stated on it because it is all the loop's
\* progress that a termination argument needs.
Avance ==
    \/ pc = "construida" /\ pc' = "ejecutando" /\ numero_fila' = 1
    \/ pc = "ejecutando" /\ pc' = "ejecutando" /\ numero_fila' = numero_fila + 1
    \/ pc = "ejecutando" /\ pc' = "retornada" /\ numero_fila' = numero_fila

FairSpec == Spec /\ WF_<<pc, numero_fila>>(Avance)

\* ---- the future-event lists on their own --------------------------------
\* The same events are pushed on the engine's heap (Simulacion.agregar_evento)
\* and on a ListaEventos, then each list is popped until it is empty.
TiemposFel == 0..2

engineVars == <<tiempo_entre_llegadas, max_iteraciones, reloj, clientes, clientes_activos,
                cola_espera, clientes_leyendo, empleados, contador_clientes,
                numero_fila, ac_tiempo_permanencia, total_clientes_atendidos,
                total_clientes_leyendo, total_clientes_generados,
                total_clientes_rechazados, biblioteca_cerrada,
                tiempo_biblioteca_cerrada_ac, tiempo_inicio_cerrada,
                historial_filas, pc, eulerVars>>

FelAgregar ==
    /\ extraidos_heap = <<>> /\ extraidos_lista = <<>>
    /\ inserciones < MaxPushes
    /\ \E t \in TiemposFel :
          /\ eventos' = agregar_evento(Estado, t, "llegada_cliente", None, None).eventos
          /\ lista' = ListaAgregarEvento(
                         lista, Evento(t, "llegada_cliente", None, None, inserciones + 1))
    /\ inserciones' = inserciones + 1
    /\ UNCHANGED <<engineVars, auxVars, extraidos_heap, extraidos_lista>>

\* Simulacion.proximo_evento
FelProximoHeap ==
    /\ eventos # <<>>
    /\ extraidos_heap' = Append(extraidos_heap, heappop(eventos)[1])
    /\ eventos' = heappop(eventos)[2]
    /\ UNCHANGED <<engineVars, auxVars, inserciones, lista, extraidos_lista>>

\* ListaEventos.proximo_evento
FelProximoLista ==
    /\ lista # <<>>
    /\ eventos = <<>>
    /\ extraidos_lista' = Append(extraidos_lista, Head(lista))
    /\ lista' = Tail(lista)
    /\ UNCHANGED <<engineVars, auxVars, inserciones, eventos, extraidos_heap>>

NextFel == FelAgregar \/ FelProximoHeap \/ FelProximoLista

SpecFel == Init /\ [][NextFel]_vars

\* ---- an IntegradorEuler on its own --------------------------------------
\* IntegradorEuler(h_euler, K, 0).integrar_hasta_paginas(paginas_objetivo),
\* one call of paso() per step.  p is counted in fiftieths of a page (a step
\* adds h * K / 5 = K / 50 pages) and t in tenths of a minute, as above.
simulacionVars == <<tiempo_entre_llegadas, max_iteraciones, reloj, eventos, clientes,
                    clientes_activos, cola_espera, clientes_leyendo, empleados,
                    contador_clientes, numero_fila, ac_tiempo_permanencia,
                    total_clientes_atendidos, total_clientes_leyendo,
                    total_clientes_generados, total_clientes_rechazados,
                    biblioteca_cerrada, tiempo_biblioteca_cerrada_ac,
                    tiempo_inicio_cerrada, historial_filas, pc, inserciones,
                    lista, extraidos_heap, extraidos_lista>>

\* the rates K given to IntegradorEuler.__init__: the constructor takes any
\* number, negative and zero included
KsEuler == {0 - 1, 0} \cup 1..MaxK

\* IntegradorEuler.__init__ and the first two lines of integrar_hasta_paginas
\* (the engine is not run here: one configuration of it is enough)
InitEuler ==
    /\ InitSimulacion
    /\ tiempo_entre_llegadas = 10
    /\ max_iteraciones = 1
    /\ euler_K \in KsEuler
    /\ euler_paginas_objetivo \in 1..MaxPaginas
    /\ euler_p = 0
    /\ euler_t = 0
    /\ euler_pasos_dados = 0
    /\ euler_pc = "integrando"
    /\ InitAux

max_pasos_doble(paginas_objetivo) == (30 * paginas_objetivo) \div h_euler

\* max_pasos = int(paginas_objetivo / self.h * 1.5)
max_pasos(paginas_objetivo) == (15 * paginas_objetivo) \div h_euler

\* while self.p < paginas_objetivo and pasos_dados < max_pasos
EulerSigue ==
    /\ euler_p < 50 * euler_paginas_objetivo
    /\ euler_pasos_dados < max_pasos(euler_paginas_objetivo)

\* the body of the loop: self.paso(); pasos_dados += 1
EulerPaso ==
    /\ euler_pc = "integrando"
    /\ EulerSigue
    /\ euler_p' = euler_p + h_euler * euler_K
    /\ euler_t' = euler_t + h_euler
    /\ euler_pasos_dados' = euler_pasos_dados + 1
    /\ UNCHANGED <<simulacionVars, auxVars, euler_K, euler_paginas_objetivo,
                   euler_pc>>

\* return self.t
EulerRetorna ==
    /\ euler_pc = "integrando"
    /\ ~EulerSigue
    /\ euler_pc' = "retornado"
    /\ UNCHANGED <<simulacionVars, auxVars, euler_K, euler_paginas_objetivo, euler_p,
                   euler_t, euler_pasos_dados>>

NextEuler == EulerPaso \/ EulerRetorna

SpecEuler == InitEuler /\ [][NextEuler]_vars

\* integrar_hasta_paginas is a plain loop that nothing suspends: while it has
\* not returned, its next step is taken
FairSpecEuler == SpecEuler /\ WF_vars(NextEuler)

\* ---- an IntegradorEuler on its own, in double precision ------------------
\* The source computes p and t as Python floats (IEEE 754 doubles).  Here a
\* non-negative double is the natural number of units of 2^-56 it is worth
\* (every double from 0.0625 up is a whole number of them), written as four
\* digits in base 2^16, lowest first, so that every intermediate value fits
\* the integers of the model checker.
DBase == 2^16

\* exact sum, and exact product by a small natural number
DSuma(a, b) ==
    LET s1 == a[1] + b[1]
        s2 == a[2] + b[2] + (s1 \div DBase)
        s3 == a[3] + b[3] + (s2 \div DBase)
        s4 == a[4] + b[4] + (s3 \div DBase)
    IN <<s1 % DBase, s2 % DBase, s3 % DBase, s4>>

DPorEntero(a, m) ==
    LET s1 == a[1] * m
        s2 == a[2] * m + (s1 \div DBase)
        s3 == a[3] * m + (s2 \div DBase)
        s4 == a[4] * m + (s3 \div DBase)
    IN <<s1 % DBase, s2 % DBase, s3 % DBase, s4>>

\* number of significant bits
BitsDe(n) == CHOOSE k \in 0..16 : n < 2^k /\ (k = 0 \/ n >= 2^(k - 1))

DBits(a) ==
    IF a[4] > 0 THEN 48 + BitsDe(a[4])
    ELSE IF a[3] > 0 THEN 32 + BitsDe(a[3])
    ELSE IF a[2] > 0 THEN 16 + BitsDe(a[2])
    ELSE BitsDe(a[1])

\* the result of a float operation: the exact value rounded to 53 significant
\* bits, ties to the even mantissa (at most 11 bits are dropped here)
DRedondear(a) ==
    LET d == DBits(a) - 53
        q == 2^d
        resto == a[1] % q
        bajo == <<a[1] - resto, a[2], a[3], a[4]>>
        impar == (a[1] \div q) % 2 = 1
    IN IF d <= 0 THEN a
       ELSE IF 2 * resto > q \/ (2 * resto = q /\ impar)
            THEN DSuma(bajo, <<q, 0, 0, 0>>)
            ELSE bajo

\* float "<"
DMenor(a, b) ==
    \/ a[4] < b[4]
    \/ a[4] = b[4] /\ a[3] < b[3]
    \/ a[4] = b[4] /\ a[3] = b[3] /\ a[2] < b[2]
    \/ a[4] = b[4] /\ a[3] = b[3] /\ a[2] = b[2] /\ a[1] < b[1]

\* the double of a natural number below 256, and the double 0.1 of
\* self.h_euler = 0.1, which is 7205759403792794 * 2^-56
DEntero(n) == <<0, 0, 0, n * 2^8>>
DCero == DEntero(0)
DH == <<39322, 39321, 39321, 25>>

\* rates and targets tried: K / 5.0 is a whole number for these rates
KsDoble == {5, 10, 100}
PaginasDoble == 1..MaxPaginas \cup {150}

InitEulerDoble ==
    /\ InitSimulacion
    /\ tiempo_entre_llegadas = 10
    /\ max_iteraciones = 1
    /\ euler_K \in KsDoble
    /\ euler_paginas_objetivo \in PaginasDoble
    /\ euler_p = DCero
    /\ euler_t = DCero
    /\ euler_pasos_dados = 0
    /\ euler_pc = "integrando"
    /\ InitAux

\* IntegradorEuler.derivada: self.K / 5.0
derivada == euler_K \div 5

\* while self.p < paginas_objetivo and pasos_dados < max_pasos
\* (int(paginas_objetivo / 0.1 * 1.5) is 15 * paginas_objetivo for the targets
\* tried)
EulerDobleSigue ==
    /\ DMenor(euler_p, DEntero(euler_paginas_objetivo))
    /\ euler_pasos_dados < max_pasos(euler_paginas_objetivo)

\* paso(): self.p = self.p + self.h * derivada_actual; self.t += self.h
EulerDoblePaso ==
    /\ euler_pc = "integrando"
    /\ EulerDobleSigue
    /\ euler_p' = DRedondear(DSuma(euler_p, DRedondear(DPorEntero(DH, derivada))))
    /\ euler_t' = DRedondear(DSuma(euler_t, DH))
    /\ euler_pasos_dados' = euler_pasos_dados + 1
    /\ UNCHANGED <<simulacionVars, auxVars, euler_K, euler_paginas_objetivo,
                   euler_pc>>

EulerDobleRetorna ==
    /\ euler_pc = "integrando"
    /\ ~EulerDobleSigue
    /\ euler_pc' = "retornado"
    /\ UNCHANGED <<simulacionVars, auxVars, euler_K, euler_paginas_objetivo, euler_p,
                   euler_t, euler_pasos_dados>>

NextEulerDoble == EulerDoblePaso \/ EulerDobleRetorna

SpecEulerDoble == InitEulerDoble /\ [][NextEulerDoble]_vars

\* ---- properties ---------------------------------------------------------
Rango(l) == {l[i] : i \in 1..Len(l)}
UltimaFila == historial_filas[Len(historial_filas)]
Rechazados == {c \in 1..Len(clientes) : clientes[c].estado = "RECHAZADO"}
NoDecreciente(l) == \A i \in 1..(Len(l) - 1) : l[i].tiempo <= l[i + 1].tiempo

\* C1: in every row of the history, each clerk's accumulated service time
\* plus accumulated idle time equals the row's clock (the run starts at 0).
C1_TiemposDeEmpleadoEnCadaFila ==
    \A i \in 1..Len(historial_filas) :
        LET f == historial_filas[i]
        IN /\ f.empleado1_ac_atencion + f.empleado1_ac_ocioso = f.reloj - 0
           /\ f.empleado2_ac_atencion + f.empleado2_ac_ocioso = f.reloj - 0

\* C2: the number of active customers never exceeds capacidad_maxima.
C2_OcupacionAcotada == Len(clientes_activos) <= capacidad_maxima

\* C2 witness: the library is full and an arrival has been turned away.
C2_Witness ==
    /\ Len(clientes_activos) = capacidad_maxima
    /\ total_clientes_rechazados > 0
    /\ UltimaFila.evento[1] = "llegada_cliente"

\* C3: right after a step that processes an arrival (admitted or rejected) or
\* in which a customer departs, the library is closed exactly when the number
\* of active customers has reached capacidad_maxima.
C3_CerradaSiiLlena ==
    [][(\/ total_clientes_generados' # total_clientes_generados
        \/ total_clientes_atendidos' # total_clientes_atendidos)
       => (biblioteca_cerrada' <=> Len(clientes_activos') >= capacidad_maxima)]_vars

\* C3 witness: a departure has just reopened a library that the row before
\* shows closed.
C3_Witness ==
    /\ Len(historial_filas) >= 2
    /\ UltimaFila.evento[1] = "fin_atencion_cliente"
    /\ historial_filas[Len(historial_filas) - 1].estado_biblioteca = "Cerrada"
    /\ ~biblioteca_cerrada
    /\ Len(clientes_activos) = capacidad_maxima - 1

\* C4: a customer rejected at arrival is never among the active, queued or
\* reading customers, is never a clerk's current customer, and no pending
\* event refers to it.
C4_RechazadoFueraDelSistema ==
    \A c \in Rechazados :
        /\ c \notin Rango(clientes_activos)
        /\ c \notin Rango(cola_espera)
        /\ c \notin Rango(clientes_leyendo)
        /\ \A e \in 1..2 : empleados[e].cliente_actual # c
        /\ \A k \in 1..Len(eventos) : eventos[k].cliente # c

\* C4 witness: a customer has been rejected and the run has gone on to serve
\* and dismiss another customer afterwards.
C4_Witness ==
    /\ Rechazados # {}
    /\ UltimaFila.evento[1] = "fin_atencion_cliente"
    /\ \E c \in Rechazados : clientes[c].hora_llegada < reloj

\* C5: after any sequence of pushes, successive pops return events with
\* non-decreasing times, from the engine's heap and from ListaEventos.
C5_ExtraccionNoDecreciente ==
    NoDecreciente(extraidos_heap) /\ NoDecreciente(extraidos_lista)

\* C5 witness: both lists have been emptied after pushes that were not in
\* time order and held different times.
C5_Witness ==
    /\ eventos = <<>> /\ lista = <<>>
    /\ Len(extraidos_heap) >= 3 /\ Len(extraidos_lista) = Len(extraidos_heap)
    /\ extraidos_heap[1].tiempo < extraidos_heap[Len(extraidos_heap)].tiempo
    /\ \E i \in 1..(Len(extraidos_heap) - 1) :
          extraidos_heap[i].orden > extraidos_heap[i + 1].orden

\* C6: of the pending events of the engine that share the earliest time, the
\* one dequeued next is the one that was inserted first.
C6_EmpatesEnOrdenDeInsercion ==
    HayEvento =>
        \A k \in 1..Len(eventos) :
            eventos[k].tiempo = ProximoEvento.tiempo
                => ProximoEvento.orden <= eventos[k].orden

\* C7: ejecutar_completa returns, and when it does exactly max_iteraciones
\* events have been processed and the history has max_iteraciones + 2 rows:
\* the initialisation row, one row per event and the end-of-simulation row.
\* (The second and third conjuncts tie the fairness of FairSpec to the
\* engine: every step is one of Avance, and until the return a call of
\* ejecutar_paso always has a branch to take.)
C7_TerminaEnElTope ==
    /\ <>(pc = "retornada")
    /\ [][Avance]_<<pc, numero_fila>>
    /\ [](pc = "ejecutando" =>
            \/ tope_alcanzado(Estado)
            \/ eventos = <<>>
            \/ ProximoEvento.tipo \in
                  {"llegada_cliente", "fin_atencion_cliente", "fin_lectura"})
    /\ [](pc = "retornada" =>
            /\ numero_fila - 1 = max_iteraciones
            /\ Len(historial_filas) = max_iteraciones + 2
            /\ historial_filas[1].evento[1] = "inicializacion"
            /\ UltimaFila.evento[1] = "fin_simulacion"
            /\ \A i \in 2..(Len(historial_filas) - 1) :
                  historial_filas[i].evento[1] \in
                      {"llegada_cliente", "fin_atencion_cliente", "fin_lectura"})

\* C7 witness: a run with a cap of several events has returned.
C7_Witness == pc = "retornada" /\ max_iteraciones >= 3

\* C8 as stated: no pending arrival lies beyond the horizon tiempo_maximo.
C8_LlegadasDentroDelHorizonte ==
    \A k \in 1..Len(eventos) :
        eventos[k].tipo = "llegada_cliente" => eventos[k].tiempo <= tiempo_maximo

\* C8 amended: every arrival step, admitted or rejected, inserts the next
\* arrival at clock + tiempo_entre_llegadas, whether or not that time is
\* within the horizon.
C8_ProximaLlegadaSiempre ==
    [][total_clientes_generados' # total_clientes_generados
       => \E k \in 1..Len(eventos') :
             /\ eventos'[k].tipo = "llegada_cliente"
             /\ eventos'[k].tiempo = reloj' + tiempo_entre_llegadas
             /\ eventos'[k].orden > inserciones]_vars

\* C8 witness: an arrival processed beyond the horizon has scheduled the
\* next one, further beyond it.
C8_Witness ==
    /\ pc = "ejecutando"
    /\ UltimaFila.evento[1] = "llegada_cliente"
    /\ reloj > tiempo_maximo
    /\ \E k \in 1..Len(eventos) :
          /\ eventos[k].tipo = "llegada_cliente"
          /\ eventos[k].tiempo = reloj + tiempo_entre_llegadas

\* C9 as stated: with an inter-arrival time beyond the horizon no arrival is
\* processed, no customer departs and the closed time stays 0.
C9_SinLlegadasTrasElHorizonte ==
    tiempo_entre_llegadas > tiempo_maximo =>
        /\ total_clientes_generados = 0
        /\ total_clientes_atendidos = 0
        /\ tiempo_biblioteca_cerrada_ac = 0

\* C9 amended: with an inter-arrival time beyond the horizon the run still
\* stops only at the iteration cap, after max_iteraciones events, the first
\* of which is the arrival at tiempo_entre_llegadas.
C9_LlegadasTrasElHorizonte ==
    (tiempo_entre_llegadas > tiempo_maximo /\ pc = "retornada") =>
        /\ numero_fila - 1 = max_iteraciones
        /\ total_clientes_generados >= 1
        /\ historial_filas[2].evento[1] = "llegada_cliente"
        /\ historial_filas[2].reloj = tiempo_entre_llegadas

\* C9 witness: such a run has returned with departed customers and closed
\* time on its accumulator.
C9_Witness ==
    /\ tiempo_entre_llegadas > tiempo_maximo
    /\ pc = "retornada"
    /\ total_clientes_atendidos > 0
    /\ tiempo_biblioteca_cerrada_ac # 0

\* C10: a step in which a departure reopens the closed library adds the time
\* it was closed, clock - tiempo_inicio_cerrada, to the closed-time
\* accumulator.
C10_ReaperturaAcumula ==
    [][(biblioteca_cerrada /\ ~biblioteca_cerrada')
       => tiempo_biblioteca_cerrada_ac' =
             tiempo_biblioteca_cerrada_ac + (reloj' - tiempo_inicio_cerrada)]_vars

Min(a, b) == IF a < b THEN a ELSE b

\* time within the horizon during which the library was closed, read off the
\* history: between two consecutive rows the library is in the state the
\* earlier row shows
RECURSIVE CerradaEntreFilas(_)
CerradaEntreFilas(i) ==
    IF i < 1 THEN 0
    ELSE CerradaEntreFilas(i - 1)
         + (IF historial_filas[i].estado_biblioteca = "Cerrada"
            THEN Min(historial_filas[i + 1].reloj, tiempo_maximo)
                 - Min(historial_filas[i].reloj, tiempo_maximo)
            ELSE 0)

CerradaHastaHorizonte ==
    CerradaEntreFilas(Len(historial_filas) - 1)
    + (IF biblioteca_cerrada THEN tiempo_maximo - Min(reloj, tiempo_maximo) ELSE 0)

\* C11: when the run has stopped with the library closed, the closed-time
\* accumulator, finalised with tiempo_maximo - reloj, is the time the library
\* was closed up to the horizon.
C11_CierreContabilizadoHastaElHorizonte ==
    (pc = "retornada" /\ biblioteca_cerrada)
        => tiempo_biblioteca_cerrada_ac = CerradaHastaHorizonte

\* the customers that have departed, and the sum of their times in the system
Salidos == {c \in 1..Len(clientes) : clientes[c].estado = "Fuera del sistema"}

RECURSIVE SumaPermanencias(_)
SumaPermanencias(n) ==
    IF n = 0 THEN 0
    ELSE SumaPermanencias(n - 1)
         + (IF n \in Salidos
            THEN clientes[n].hora_salida - clientes[n].hora_llegada ELSE 0)

\* C12: a departure takes the customer out of clientes_activos, adds its
\* hora_salida - hora_llegada to ac_tiempo_permanencia and adds one to
\* total_clientes_atendidos; so in every state the accumulator is the sum of
\* the times in the system of the departed customers and the counter is
\* their number.
C12_SalidaContabilizada ==
    /\ [](/\ ac_tiempo_permanencia = SumaPermanencias(Len(clientes))
          /\ total_clientes_atendidos = Cardinality(Salidos)
          /\ Salidos \cap Rango(clientes_activos) = {})
    /\ [][total_clientes_atendidos' # total_clientes_atendidos
          => \E c \in Rango(clientes_activos) :
                /\ c \notin Rango(clientes_activos')
                /\ Len(clientes_activos') = Len(clientes_activos) - 1
                /\ clientes'[c].estado = "Fuera del sistema"
                /\ clientes'[c].hora_salida = reloj'
                /\ ac_tiempo_permanencia' = ac_tiempo_permanencia
                       + (clientes'[c].hora_salida - clientes'[c].hora_llegada)
                /\ total_clientes_atendidos' = total_clientes_atendidos + 1]_vars

\* C12 witness: several customers have departed, one of them after reading.
C12_Witness ==
    /\ total_clientes_atendidos >= 2
    /\ ac_tiempo_permanencia > 0
    /\ \E c \in Salidos : clientes[c].fin_lectura # None

\* C13: a step that processes an arrival while the number of active customers
\* is at capacidad_maxima adds one to the generated and to the rejected
\* counter and inserts the next arrival at clock + tiempo_entre_llegadas; it
\* leaves the active, waiting and reading lists, both clerks, the counter of
\* admitted customers, the accumulated time in the system and the closed
\* flag as they were.
C13_RechazoSoloCuenta ==
    [][(/\ total_clientes_generados' # total_clientes_generados
        /\ Len(clientes_activos) >= capacidad_maxima)
       => /\ total_clientes_generados' = total_clientes_generados + 1
          /\ total_clientes_rechazados' = total_clientes_rechazados + 1
          /\ inserciones' = inserciones + 1
          /\ Len(eventos') = Len(eventos)
          /\ \E k \in 1..Len(eventos') :
                eventos'[k] = Evento(reloj' + tiempo_entre_llegadas,
                                     "llegada_cliente", None, None, inserciones')
          /\ UNCHANGED <<clientes_activos, cola_espera, clientes_leyendo,
                         empleados, contador_clientes, ac_tiempo_permanencia,
                         biblioteca_cerrada>>]_vars

\* C13 witness: the last row is that of an arrival turned away while
\* customers were waiting in the queue.
C13_Witness ==
    /\ pc = "ejecutando"
    /\ clientes # <<>>
    /\ clientes[Len(clientes)].estado = "RECHAZADO"
    /\ UltimaFila.evento = <<"llegada_cliente", total_clientes_generados>>
    /\ UltimaFila.reloj = clientes[Len(clientes)].hora_llegada
    /\ cola_espera # <<>>

EventosDe(evs, c) == {k \in 1..Len(evs) : evs[k].cliente = c}
HayEmpleadoLibre == esta_libre(empleados[1]) \/ esta_libre(empleados[2])

\* C14: a step that admits an arriving customer starts its service at once, on
\* the first idle clerk and with one FIN_ATENCION event for it, exactly when a
\* clerk is idle at the arrival; otherwise the customer goes to the tail of
\* cola_espera with estado "En cola", no event refers to it and no clerk
\* changes.
C14_AtencionInmediataSiiLibre ==
    [][contador_clientes' # contador_clientes
       => LET c == Len(clientes')
          IN /\ Len(clientes') = Len(clientes) + 1
             /\ IF HayEmpleadoLibre
                THEN LET e == IF esta_libre(empleados[1]) THEN 1 ELSE 2
                     IN /\ clientes'[c].estado = "Siendo atendido"
                        /\ cola_espera' = cola_espera
                        /\ empleados'[e].estado = "Ocupado"
                        /\ empleados'[e].cliente_actual = c
                        /\ empleados'[3 - e] = empleados[3 - e]
                        /\ Cardinality(EventosDe(eventos', c)) = 1
                        /\ \A k \in EventosDe(eventos', c) :
                              /\ eventos'[k].tipo = "fin_atencion_cliente"
                              /\ eventos'[k].empleado = e
                              /\ eventos'[k].tiempo = empleados'[e].hora_fin_atencion
                              /\ eventos'[k].tiempo >= reloj'
                ELSE /\ clientes'[c].estado = "En cola"
                     /\ cola_espera' = Append(cola_espera, c)
                     /\ empleados' = empleados
                     /\ EventosDe(eventos', c) = {}]_vars

\* C14 witness: the customer just admitted is second in the queue, behind an
\* earlier one, with both clerks busy; an earlier customer was served at once.
C14_Witness ==
    /\ pc = "ejecutando"
    /\ UltimaFila.evento[1] = "llegada_cliente"
    /\ Len(cola_espera) = 2
    /\ cola_espera[2] = Len(clientes)
    /\ clientes[Len(clientes)].estado = "En cola"
    /\ ~HayEmpleadoLibre
    /\ \E c \in 1..Len(clientes) : clientes[c].fin_atencion_emp2 # None

\* the customers whose service starts in a step: a FIN_ATENCION event for
\* them is inserted in it
IniciaAtencion(c) ==
    \E k \in 1..Len(eventos') :
        /\ eventos'[k].tipo = "fin_atencion_cliente"
        /\ eventos'[k].cliente = c
        /\ eventos'[k].orden > inserciones

\* C15: the wait queue is first in, first out.  Customers wait only while
\* both clerks are busy; the queue changes only by an append at its tail or by
\* the removal of its head; a customer whose service starts while others wait
\* is the head of the queue; and a step that processes a service end with a
\* non-empty queue puts the head of the queue on the clerk just freed.
C15_ColaFIFO ==
    /\ [](cola_espera # <<>> => ~HayEmpleadoLibre)
    /\ [][/\ \/ cola_espera' = cola_espera
             \/ cola_espera # <<>> /\ cola_espera' = Tail(cola_espera)
             \/ /\ Len(cola_espera') = Len(cola_espera) + 1
                /\ SubSeq(cola_espera', 1, Len(cola_espera)) = cola_espera
                /\ cola_espera'[Len(cola_espera')] \notin Rango(cola_espera)
          /\ \A c \in 1..Len(clientes') :
                (IniciaAtencion(c) /\ cola_espera # <<>>)
                    => c = Head(cola_espera) /\ cola_espera' = Tail(cola_espera)
          /\ (/\ pc = "ejecutando" /\ numero_fila' = numero_fila + 1
              /\ ProximoEvento.tipo = "fin_atencion_cliente"
              /\ cola_espera # <<>>)
                => /\ cola_espera' = Tail(cola_espera)
                   /\ IniciaAtencion(Head(cola_espera))
                   /\ empleados'[ProximoEvento.empleado].cliente_actual = Head(cola_espera)
                   /\ clientes'[Head(cola_espera)].estado = "Siendo atendido"]_vars

\* C15 witness: a service end has put on the freed clerk a customer that had
\* waited, while a customer that arrived later still waits.
C15_Witness ==
    /\ pc = "ejecutando"
    /\ UltimaFila.evento[1] = "fin_atencion_cliente"
    /\ cola_espera # <<>>
    /\ \E e \in 1..2 :
          /\ empleados[e].estado = "Ocupado"
          /\ empleados[e].ultimo_cambio_estado = reloj
          /\ clientes[empleados[e].cliente_actual].hora_llegada < reloj
          /\ clientes[empleados[e].cliente_actual].hora_llegada
                 < clientes[Head(cola_espera)].hora_llegada

\* a step of ejecutar_paso that processes an event of the given type
ProcesaEvento(tipo) ==
    /\ pc = "ejecutando"
    /\ numero_fila' = numero_fila + 1
    /\ ProximoEvento.tipo = tipo

\* C16: a step that processes a service end releases the clerk (its service
\* time up to the clock is accrued and it no longer serves that customer).  A
\* customer that came to return a book or to inquire, and one that came to
\* borrow and whose decision draw is below prob_retirarse, departs in that
\* step.  Any other borrower does not depart: it joins clientes_leyendo with
\* estado "Leyendo" and exactly one event refers to it, a FIN_LECTURA at
\* clock + tiempo_lectura.
C16_FinDeAtencion ==
    [][ProcesaEvento("fin_atencion_cliente")
       => LET c == ProximoEvento.cliente
              e == ProximoEvento.empleado
              sale == \/ clientes[c].objetivo # "Pedir libro"
                      \/ clientes'[c].rnd_decision < prob_retirarse
          IN /\ empleados[e].estado = "Ocupado"
             /\ empleados[e].cliente_actual = c
             /\ empleados'[e].cliente_actual # c
             /\ empleados'[e].ultimo_cambio_estado = reloj'
             /\ empleados'[e].tiempo_acumulado_atencion =
                   empleados[e].tiempo_acumulado_atencion
                   + (reloj' - empleados[e].ultimo_cambio_estado)
             /\ clientes[c].objetivo \in {"Pedir libro", "Devolver libro", "Consultar"}
             /\ clientes[c].objetivo = "Pedir libro" => clientes'[c].rnd_decision # None
             /\ IF sale
                THEN /\ clientes'[c].estado = "Fuera del sistema"
                     /\ clientes'[c].hora_salida = reloj'
                     /\ c \notin Rango(clientes_activos')
                     /\ clientes_leyendo' = clientes_leyendo
                     /\ total_clientes_atendidos' = total_clientes_atendidos + 1
                     /\ EventosDe(eventos', c) = {}
                ELSE /\ clientes'[c].estado = "Leyendo"
                     /\ clientes'[c].hora_salida = None
                     /\ clientes_leyendo' = Append(clientes_leyendo, c)
                     /\ c \notin Rango(clientes_leyendo)
                     /\ c \in Rango(clientes_activos')
                     /\ total_clientes_atendidos' = total_clientes_atendidos
                     /\ clientes'[c].tiempo_lectura > 0
                     /\ Cardinality(EventosDe(eventos', c)) = 1
                     /\ \A k \in EventosDe(eventos', c) :
                           /\ eventos'[k].tipo = "fin_lectura"
                           /\ eventos'[k].tiempo = reloj' + clientes'[c].tiempo_lectura
                           /\ eventos'[k].orden > inserciones]_vars

\* C16 witness: a borrower has left at its service end, a customer with
\* another intent has departed, and the service end just processed sent a
\* borrower to read.
C16_Witness ==
    /\ pc = "ejecutando"
    /\ UltimaFila.evento[1] = "fin_atencion_cliente"
    /\ \E a \in Salidos : clientes[a].se_retira /\ clientes[a].objetivo = "Pedir libro"
    /\ \E b \in Salidos : clientes[b].objetivo = "Consultar"
    /\ \E c \in Rango(clientes_leyendo) :
          /\ clientes[c].id = UltimaFila.evento[2]
          /\ clientes[c].estado = "Leyendo"
          /\ clientes[c].fin_lectura > reloj

\* C17: a step that processes a reading end takes the customer out of
\* clientes_leyendo and makes its intent "Devolver libro"; the customer goes to
\* the first idle clerk if there is one, with a FIN_ATENCION event for the
\* return, and otherwise to the tail of cola_espera; it stays in
\* clientes_activos and is not counted as departed in that step.  A customer
\* that has read is counted as departed only at the end of its return service.
C17_FinDeLectura ==
    /\ [](\A c \in Salidos :
             clientes[c].fin_lectura # None
                 => /\ clientes[c].objetivo = "Devolver libro"
                    /\ clientes[c].tiempo_devolucion >= tiempo_devolucion_min
                    /\ clientes[c].hora_salida
                          >= clientes[c].fin_lectura + clientes[c].tiempo_devolucion
                    /\ clientes[c].hora_salida \in
                          {clientes[c].fin_atencion_emp1, clientes[c].fin_atencion_emp2})
    /\ [][ProcesaEvento("fin_lectura")
          => LET c == ProximoEvento.cliente
             IN /\ c \in Rango(clientes_leyendo)
                /\ c \notin Rango(clientes_leyendo')
                /\ Len(clientes_leyendo') = Len(clientes_leyendo) - 1
                /\ clientes[c].objetivo = "Pedir libro"
                /\ clientes'[c].objetivo = "Devolver libro"
                /\ clientes_activos' = clientes_activos
                /\ c \in Rango(clientes_activos')
                /\ total_clientes_atendidos' = total_clientes_atendidos
                /\ clientes'[c].hora_salida = None
                /\ IF HayEmpleadoLibre
                   THEN LET e == IF esta_libre(empleados[1]) THEN 1 ELSE 2
                        IN /\ clientes'[c].estado = "Siendo atendido"
                           /\ cola_espera' = cola_espera
                           /\ empleados'[e].estado = "Ocupado"
                           /\ empleados'[e].cliente_actual = c
                           /\ empleados'[3 - e] = empleados[3 - e]
                           /\ Cardinality(EventosDe(eventos', c)) = 1
                           /\ \A k \in EventosDe(eventos', c) :
                                 /\ eventos'[k].tipo = "fin_atencion_cliente"
                                 /\ eventos'[k].empleado = e
                                 /\ eventos'[k].tiempo =
                                       reloj' + clientes'[c].tiempo_devolucion
                   ELSE /\ clientes'[c].estado = "En cola"
                        /\ cola_espera' = Append(cola_espera, c)
                        /\ empleados' = empleados
                        /\ EventosDe(eventos', c) = {}]_vars

\* C17 witness: a customer that read came back at its reading end, was served
\* for the return of the book and has departed at the end of that service.
C17_Witness ==
    \E c \in Salidos :
        /\ clientes[c].fin_lectura # None
        /\ clientes[c].objetivo = "Devolver libro"
        /\ clientes[c].hora_salida > clientes[c].fin_lectura
        /\ c \notin Rango(clientes_leyendo)

\* the changes of Cliente.estado that C18 allows for an existing customer
TransicionesDeEstado ==
    {<<"En cola", "Siendo atendido">>,
     <<"Siendo atendido", "Fuera del sistema">>,
     <<"Siendo atendido", "Leyendo">>,
     <<"Leyendo", "Siendo atendido">>,
     <<"Leyendo", "En cola">>}

\* C18: a customer is created waiting (only when no clerk is idle), in
\* service, or rejected; afterwards its estado only goes from waiting to in
\* service, from in service to departed or to reading, and from reading back
\* to waiting or in service as a customer that returns a book.  Departed and
\* rejected customers never change.  The estado says where the customer is:
\* waiting customers are the ones in cola_espera, customers in service the
\* ones on a clerk, reading customers the ones in clientes_leyendo.
C18_TransicionesDeEstado ==
    /\ [](\A c \in 1..Len(clientes) :
             /\ clientes[c].estado \in {"En cola", "Siendo atendido", "Leyendo",
                                        "Fuera del sistema", "RECHAZADO"}
             /\ clientes[c].estado = "En cola" <=> c \in Rango(cola_espera)
             /\ clientes[c].estado = "Leyendo" <=> c \in Rango(clientes_leyendo)
             /\ clientes[c].estado = "Siendo atendido"
                   <=> \E e \in 1..2 : /\ empleados[e].estado = "Ocupado"
                                        /\ empleados[e].cliente_actual = c
             /\ clientes[c].estado \in {"En cola", "Siendo atendido", "Leyendo"}
                   <=> c \in Rango(clientes_activos))
    /\ [][/\ Len(clientes') >= Len(clientes)
          /\ \A c \in 1..Len(clientes) :
                \/ clientes'[c].estado = clientes[c].estado
                \/ /\ <<clientes[c].estado, clientes'[c].estado>> \in TransicionesDeEstado
                   /\ clientes[c].estado = "Leyendo"
                         => /\ clientes'[c].objetivo = "Devolver libro"
                            /\ ProcesaEvento("fin_lectura")
                   /\ clientes'[c].estado = "En cola" => ~HayEmpleadoLibre
          /\ \A c \in (Len(clientes) + 1)..Len(clientes') :
                /\ ProcesaEvento("llegada_cliente")
                /\ clientes'[c].estado \in {"En cola", "Siendo atendido", "RECHAZADO"}
                /\ clientes'[c].estado = "En cola" <=>
                      (~HayEmpleadoLibre /\ Len(clientes_activos) < capacidad_maxima)
                /\ clientes'[c].estado = "RECHAZADO" <=>
                      Len(clientes_activos) >= capacidad_maxima]_vars

\* C18 witness: at once a customer waits, one is served, one reads and one
\* has been rejected, and the customer that reads was served before.
C18_Witness ==
    /\ \E c \in Rango(cola_espera) : clientes[c].estado = "En cola"
    /\ \E c \in Rango(clientes_leyendo) :
          /\ clientes[c].estado = "Leyendo"
          /\ clientes[c].fin_atencion_emp1 # None
    /\ \E c \in 1..Len(clientes) : clientes[c].estado = "Siendo atendido"
    /\ Rechazados # {}

\* C19: the Cliente records created by the arrival handler, admitted or
\* rejected, have pairwise different ids, numbered 1, 2, 3, ... in the order
\* of the arrivals ("clientes" holds them in the order of their creation).
C19_IdsUnicosYSecuenciales ==
    /\ \A a, b \in 1..Len(clientes) : a # b => clientes[a].id # clientes[b].id
    /\ \A c \in 1..Len(clientes) : clientes[c].id = c

\* C20: when integrar_hasta_paginas returns, with K > 0 and h > 0, p has
\* reached paginas_objetivo, p was below paginas_objetivo before the last
\* step, and the returned t is h times the number of steps taken.
C20_IntegraHastaElObjetivo ==
    (euler_pc = "retornado" /\ euler_K > 0)
        => /\ euler_p >= 50 * euler_paginas_objetivo
           /\ euler_pasos_dados > 0
           /\ euler_p - h_euler * euler_K < 50 * euler_paginas_objetivo
           /\ euler_t = h_euler * euler_pasos_dados

EsDiadico(a, b) == \E k \in 0..8 : (a * 2^k) % b = 0

\* C22: when the target is a whole multiple of the increment of a step,
\* h * K / 5 pages, the call takes paginas_objetivo / (h * K / 5) steps and
\* returns exactly paginas_objetivo / (K / 5), that is, the returned t times
\* K / 5 is paginas_objetivo (checked where that quotient is a double).
C22_TiempoExacto ==
    (/\ euler_pc = "retornado"
     /\ (10 * euler_paginas_objetivo) % derivada = 0
     /\ EsDiadico(euler_paginas_objetivo, derivada))
        => /\ euler_pasos_dados = (10 * euler_paginas_objetivo) \div derivada
           /\ DPorEntero(euler_t, derivada) = DEntero(euler_paginas_objetivo)

\* ---------------------------------------------------------------------------
\* Simulacion.generar_objetivo on its own
\* ---------------------------------------------------------------------------

\* values of prob_pedir_libro and prob_devolver_libro tried (percent); the
\* constructor takes any pair, the pairs tried leave room for "Consultar"
ProbsObjetivo == {0, 45, 50, 100}

\* random.random() is in [0, 1): the draws, in percent
DrawsObjetivo == 0..99

\* a Simulacion built with the two probabilities, before generar_objetivo
InitObjetivo ==
    /\ InitSimulacion
    /\ tiempo_entre_llegadas = 10
    /\ max_iteraciones = 1
    /\ InitSinIntegrador
    /\ gen_prob_pedir_libro \in ProbsObjetivo
    /\ gen_prob_devolver_libro \in ProbsObjetivo
    /\ gen_prob_pedir_libro + gen_prob_devolver_libro <= 100
    /\ gen_rnd = None
    /\ gen_resultado = <<>>
    /\ InitSinVentana
    /\ InitSinVentanaConfiguracion

\* one call of generar_objetivo: rnd = random.random(), then
\* return TipoObjetivo.X, rnd
GenerarObjetivo ==
    /\ \E rnd \in DrawsObjetivo :
          /\ gen_rnd' = rnd
          /\ gen_resultado' = <<objetivo_segun(rnd, gen_prob_pedir_libro,
                                               gen_prob_devolver_libro), rnd>>
    /\ UNCHANGED <<simulacionVars, eulerVars, dialogoVars, ventanaVars, tkVars, cancelacion,
                   gen_prob_pedir_libro, gen_prob_devolver_libro>>

NextObjetivo == GenerarObjetivo

SpecObjetivo == InitObjetivo /\ [][NextObjetivo]_vars

\* C23: generar_objetivo maps the draw r to "Pedir libro" exactly when
\* r < p1, to "Devolver libro" exactly when p1 <= r < p1 + p2 and to
\* "Consultar" exactly when r >= p1 + p2, and the tuple it returns holds that
\* intent first and the raw draw second
C23_ObjetivoSegunElSorteo ==
    gen_resultado # <<>> =>
        LET r == gen_rnd
            p1 == gen_prob_pedir_libro
            p2 == gen_prob_devolver_libro
        IN  /\ Len(gen_resultado) = 2
            /\ gen_resultado[2] = r
            /\ gen_resultado[1] \in {"Pedir libro", "Devolver libro", "Consultar"}
            /\ (gen_resultado[1] = "Pedir libro") <=> (r < p1)
            /\ (gen_resultado[1] = "Devolver libro") <=> (p1 <= r /\ r < p1 + p2)
            /\ (gen_resultado[1] = "Consultar") <=> (r >= p1 + p2)

\* a draw equal to p1 gave "Devolver libro" although both intents were possible
C23_Witness ==
    /\ gen_resultado # <<>>
    /\ gen_prob_pedir_libro > 0
    /\ gen_prob_devolver_libro > 0
    /\ gen_rnd = gen_prob_pedir_libro
    /\ gen_resultado = <<"Devolver libro", gen_rnd>>

\* ---------------------------------------------------------------------------
\* ConfiguracionWindow and the handlers of MainWindow that use it
\* ---------------------------------------------------------------------------

\* values typed in the probability fields (hundredths: decimals = 2) and in
\* the inquiry-time fields (tenths of a minute: decimals = 1)
ProbsCampo == {10, 45}
ConsCampo == {20, 50}

Abs(x) == IF x < 0 THEN 0 - x ELSE x

\* math.isclose(p_pedir + p_devolver + p_consultar, 1.0, abs_tol=0.001), with
\* the probabilities in hundredths
suma_valida(p_pedir, p_devolver, p_consultar) ==
    Abs(10 * (p_pedir + p_devolver + p_consultar) - 1000) <= 1

rango_valido_invertido(cons_min, cons_max) == ~(cons_max > cons_min)

\* not (self.s_cons_min.value() > self.s_cons_max.value())
rango_valido(cons_min, cons_max) == ~(cons_min > cons_max)

\* ConfiguracionWindow.__init__ with the default values of the five fields
abrir_dialogo ==
    /\ s_prob_pedir' = 45
    /\ s_prob_devolver' = 45
    /\ s_prob_consultar' = 10
    /\ s_cons_min' = 20
    /\ s_cons_max' = 50
    /\ parametros' = SinParametros
    /\ resultado_dialogo' = "abierto"
    /\ ultimo_mensaje' = "ninguno"

\* MainWindow.__init__: no parameters, no simulation, btn_ejecutar disabled,
\* and mostrar_configuracion() has opened the dialog
InitVentana ==
    /\ InitSimulacion
    /\ tiempo_entre_llegadas = 10
    /\ max_iteraciones = 1
    /\ InitSinIntegrador
    /\ InitGen
    /\ InitSinVentanaConfiguracion
    /\ s_prob_pedir = 45
    /\ s_prob_devolver = 45
    /\ s_prob_consultar = 10
    /\ s_cons_min = 20
    /\ s_cons_max = 50
    /\ parametros = SinParametros
    /\ resultado_dialogo = "abierto"
    /\ ultimo_mensaje = "ninguno"
    /\ parametros_simulacion = SinParametros
    /\ btn_ejecutar_habilitado = FALSE
    /\ simulacion = SinParametros
    /\ thread = SinParametros
    /\ threads_corriendo = {}
    /\ simulacion_id = 0

\* the user edits the fields of the open dialog
EditarCampos ==
    /\ resultado_dialogo = "abierto"
    /\ s_prob_pedir' \in ProbsCampo
    /\ s_prob_devolver' \in ProbsCampo
    /\ s_prob_consultar' \in ProbsCampo
    /\ s_cons_min' \in ConsCampo
    /\ s_cons_max' \in ConsCampo
    /\ UNCHANGED <<simulacionVars, eulerVars, genVars, tkVars, cancelacion, ventanaVars, parametros,
                   resultado_dialogo, ultimo_mensaje>>

\* ConfiguracionWindow.aceptar; when it accepts, exec_() returns Accepted and
\* mostrar_configuracion goes on: it takes the parameters, enables
\* btn_ejecutar and reiniciar_tabla() drops self.simulacion
Aceptar ==
    /\ resultado_dialogo = "abierto"
    /\ IF ~suma_valida(s_prob_pedir, s_prob_devolver, s_prob_consultar)
       THEN /\ ultimo_mensaje' = "Error de Probabilidad"
            /\ UNCHANGED <<parametros, resultado_dialogo, ventanaVars>>
       ELSE IF ~rango_valido(s_cons_min, s_cons_max)
       THEN /\ ultimo_mensaje' = "Error de Rango"
            /\ UNCHANGED <<parametros, resultado_dialogo, ventanaVars>>
       ELSE /\ parametros' = [prob_pedir_libro |-> s_prob_pedir,
                              prob_devolver_libro |-> s_prob_devolver,
                              prob_consultar |-> s_prob_consultar,
                              tiempo_consulta_min |-> s_cons_min,
                              tiempo_consulta_max |-> s_cons_max]
            /\ resultado_dialogo' = "Accepted"
            /\ parametros_simulacion' = parametros'
            /\ btn_ejecutar_habilitado' = TRUE
            /\ simulacion' = SinParametros
            /\ simulacion_id' = 0
            /\ UNCHANGED <<ultimo_mensaje, thread, threads_corriendo>>
    /\ UNCHANGED <<simulacionVars, eulerVars, genVars, tkVars, cancelacion, s_prob_pedir,
                   s_prob_devolver, s_prob_consultar, s_cons_min, s_cons_max>>

\* the dialog is closed without accepting: exec_() returns Rejected and
\* mostrar_configuracion disables btn_ejecutar
Cancelar ==
    /\ resultado_dialogo = "abierto"
    /\ resultado_dialogo' = "Rejected"
    /\ btn_ejecutar_habilitado' = FALSE
    /\ UNCHANGED <<simulacionVars, eulerVars, genVars, tkVars, cancelacion, s_prob_pedir,
                   s_prob_devolver, s_prob_consultar, s_cons_min, s_cons_max,
                   parametros, ultimo_mensaje, parametros_simulacion,
                   simulacion, thread, threads_corriendo, simulacion_id>>

\* MainWindow.mostrar_configuracion from btn_reiniciar (always enabled)
MostrarConfiguracion ==
    /\ resultado_dialogo # "abierto"
    /\ abrir_dialogo
    /\ UNCHANGED <<simulacionVars, eulerVars, genVars, tkVars, cancelacion, ventanaVars>>

\* a Simulacion object that is not referenced by the window or by a thread
NuevaSimulacion ==
    CHOOSE id \in 1..(MaxThreads + 1) : id \notin threads_corriendo \cup {simulacion_id}

\* MainWindow.ejecutar_simulacion from btn_ejecutar
EjecutarSimulacion ==
    /\ resultado_dialogo # "abierto"
    /\ btn_ejecutar_habilitado
    /\ IF parametros_simulacion = SinParametros
       THEN /\ abrir_dialogo
            /\ UNCHANGED ventanaVars
       ELSE /\ Cardinality(threads_corriendo) < MaxThreads
            /\ simulacion' = parametros_simulacion
            /\ simulacion_id' = NuevaSimulacion
            /\ thread' = simulacion'
            /\ threads_corriendo' = threads_corriendo \cup {simulacion_id'}
            /\ btn_ejecutar_habilitado' = FALSE
            /\ UNCHANGED <<dialogoVars, parametros_simulacion>>
    /\ UNCHANGED <<simulacionVars, eulerVars, genVars, tkVars, cancelacion>>

\* MainWindow.simulacion_completada, on the finished signal of the thread
SimulacionCompletada ==
    /\ \E id \in threads_corriendo : threads_corriendo' = threads_corriendo \ {id}
    /\ btn_ejecutar_habilitado' = TRUE
    /\ UNCHANGED <<simulacionVars, eulerVars, genVars, tkVars, cancelacion,
                   dialogoVars, parametros_simulacion, simulacion, thread,
                   simulacion_id>>

NextVentana ==
    \/ EditarCampos
    \/ Aceptar
    \/ Cancelar
    \/ MostrarConfiguracion
    \/ EjecutarSimulacion
    \/ SimulacionCompletada

SpecVentana == InitVentana /\ [][NextVentana]_vars

\* the values of a dict of parameters pass both validations of aceptar
ParametrosValidos(ps) ==
    /\ Abs(10 * (ps.prob_pedir_libro + ps.prob_devolver_libro + ps.prob_consultar)
             - 1000) <= 1
    /\ ps.tiempo_consulta_min <= ps.tiempo_consulta_max

\* the fields of the open dialog hold an invalid configuration
CamposInvalidos ==
    \/ Abs(10 * (s_prob_pedir + s_prob_devolver + s_prob_consultar) - 1000) > 1
    \/ s_cons_min > s_cons_max

\* every dict of parameters that is set, and every Simulacion built or
\* started, holds values that pass both validations of aceptar
SoloParametrosValidos ==
    /\ parametros # SinParametros => ParametrosValidos(parametros)
    /\ resultado_dialogo = "Accepted" => parametros # SinParametros
    /\ parametros_simulacion # SinParametros
          => ParametrosValidos(parametros_simulacion)
    /\ simulacion # SinParametros => ParametrosValidos(simulacion)
    /\ thread # SinParametros => ParametrosValidos(thread)

\* C24: while the fields of the open dialog hold probabilities that do not
\* sum to 1.0 within 0.001, or an inquiry minimum above the maximum, no step
\* (aceptar included) sets parametros or accepts the dialog or changes the
\* parameters, the simulation or the thread of the main window; and after
\* every step each dict of parameters that is set, and each Simulacion built
\* or started, holds values that pass both validations
C24_ConfiguracionInvalidaRechazada ==
    [][/\ (resultado_dialogo = "abierto" /\ CamposInvalidos /\ UNCHANGED
               <<s_prob_pedir, s_prob_devolver, s_prob_consultar, s_cons_min,
                 s_cons_max>>)
            => /\ parametros' = SinParametros
               /\ resultado_dialogo' # "Accepted"
               /\ UNCHANGED <<parametros_simulacion, simulacion, thread>>
       /\ SoloParametrosValidos']_vars

\* aceptar has just refused fields whose probabilities do not sum to 1.0,
\* while the main window holds an earlier, accepted configuration
C24_Witness ==
    /\ resultado_dialogo = "abierto"
    /\ ultimo_mensaje = "Error de Probabilidad"
    /\ CamposInvalidos
    /\ parametros = SinParametros
    /\ parametros_simulacion # SinParametros
    /\ simulacion # SinParametros

\* ---------------------------------------------------------------------------
\* VentanaConfiguracion of the tkinter interface (values in hundredths)
\* ---------------------------------------------------------------------------

\* the first two keys of params_sim and the first key of params_sistema with
\* 'PROB' in it, in the order they are put into self.vars_params
Claves == <<"TIEMPO_MAXIMO_SIMULACION", "MAX_ITERACIONES", "PROB_PEDIR_LIBRO">>

ConjuntoClaves == {Claves[i] : i \in 1..Len(Claves)}

\* texts typed in an entry field
TextosCampo == {"480", "2.5", "25e-1", "abc"}

\* float(value) on the texts tried and on the initial texts; None stands for
\* ValueError
float(value) ==
    CASE value = "480" -> 48000
      [] value = "100000" -> 10000000
      [] value = "0.45" -> 45
      [] value = "2.5" -> 250
      [] value = "25e-1" -> 250
      [] OTHER -> None

\* '.' in value
tiene_punto(value) == value \in {"0.45", "2.5"}

\* int(x) for x >= 0: truncation to a whole number
int(x) == (x \div 100) * 100

\* the value _ejecutar gives to setattr for a key, None when the conversion
\* raises ValueError
convertir(key, value) ==
    IF tiene_punto(value) \/ key = "PROB_PEDIR_LIBRO"
    THEN float(value)
    ELSE IF float(value) = None THEN None ELSE int(float(value))

\* the loop of _ejecutar from the i-th key on: the config it leaves and
\* whether it ended without ValueError
RECURSIVE aplicar(_, _)
aplicar(cfg, i) ==
    IF i > Len(Claves) THEN [config |-> cfg, ok |-> TRUE]
    ELSE LET v == convertir(Claves[i], vars_params[Claves[i]])
         IN  IF v = None THEN [config |-> cfg, ok |-> FALSE]
             ELSE aplicar([cfg EXCEPT ![Claves[i]] = v], i + 1)

\* VentanaConfiguracion.__init__ on a ConfigSimulacion without these
\* attributes: the fields show the defaults of _crear_interfaz, and the
\* config is shown with the same values
InitVentanaConfiguracion ==
    /\ InitSimulacion
    /\ tiempo_entre_llegadas = 10
    /\ max_iteraciones = 1
    /\ InitSinIntegrador
    /\ InitGen
    /\ InitSinVentana
    /\ cancelacion = <<>>
    /\ config = [key \in ConjuntoClaves |->
                    CASE key = "TIEMPO_MAXIMO_SIMULACION" -> 48000
                      [] key = "MAX_ITERACIONES" -> 10000000
                      [] OTHER -> 45]
    /\ vars_params = [key \in ConjuntoClaves |->
                         CASE key = "TIEMPO_MAXIMO_SIMULACION" -> "480"
                           [] key = "MAX_ITERACIONES" -> "100000"
                           [] OTHER -> "0.45"]
    /\ ventana_destruida = FALSE
    /\ callback_llamado = FALSE
    /\ error_mostrado = FALSE

\* the user types a text in one entry field
EditarTexto ==
    /\ ~ventana_destruida
    /\ \E key \in ConjuntoClaves, texto \in TextosCampo :
          vars_params' = [vars_params EXCEPT ![key] = texto]
    /\ UNCHANGED <<simulacionVars, eulerVars, genVars, dialogoVars, ventanaVars, cancelacion,
                   config, ventana_destruida, callback_llamado, error_mostrado>>

\* VentanaConfiguracion._ejecutar
Ejecutar ==
    /\ ~ventana_destruida
    /\ LET r == aplicar(config, 1)
       IN  /\ config' = r.config
           /\ IF r.ok
              THEN /\ ventana_destruida' = TRUE
                   /\ callback_llamado' = TRUE
                   /\ UNCHANGED error_mostrado
              ELSE /\ error_mostrado' = TRUE
                   /\ UNCHANGED <<ventana_destruida, callback_llamado>>
    /\ UNCHANGED <<simulacionVars, eulerVars, genVars, dialogoVars, ventanaVars, cancelacion,
                   vars_params>>

\* the button "Cancelar": command=self.destroy
CancelarVentana ==
    /\ ~ventana_destruida
    /\ ventana_destruida' = TRUE
    /\ UNCHANGED <<simulacionVars, eulerVars, genVars, dialogoVars, ventanaVars, cancelacion,
                   config, vars_params, callback_llamado, error_mostrado>>

NextVentanaConfiguracion ==
    \/ EditarTexto
    \/ Ejecutar
    \/ CancelarVentana

SpecVentanaConfiguracion ==
    InitVentanaConfiguracion /\ [][NextVentanaConfiguracion]_vars

\* some entry field holds a text whose conversion raises ValueError
CampoInvalido ==
    \E key \in ConjuntoClaves : convertir(key, vars_params[key]) = None

\* C25: when _ejecutar fails on an invalid field value, no attribute of the
\* config has been modified and the callback has not been called
C25_RechazoSinCambios ==
    [][(~ventana_destruida /\ CampoInvalido /\ UNCHANGED vars_params)
          => /\ config' = config
             /\ callback_llamado' = callback_llamado]_vars

\* ---------------------------------------------------------------------------
\* Empleado.atender and Empleado.liberar inside the engine
\* ---------------------------------------------------------------------------

\* the step called atender on clerk e: it scheduled a service end for e
Atiende(e) ==
    \E k \in 1..Len(eventos') :
        /\ eventos'[k].tipo = "fin_atencion_cliente"
        /\ eventos'[k].empleado = e
        /\ eventos'[k].orden > inserciones

\* the step called liberar on clerk e: it processed a service end of e
Libera(e) ==
    /\ ProcesaEvento("fin_atencion_cliente")
    /\ ProximoEvento.empleado = e

\* C27: in every step of the engine, a clerk on which neither atender nor
\* liberar was called keeps its two accumulators, ultimo_cambio_estado, state
\* and customer; atender is called on an idle clerk and adds clock -
\* ultimo_cambio_estado to the idle accumulator only; liberar is called on a
\* busy clerk, adds clock - ultimo_cambio_estado to the busy accumulator only,
\* returns the customer whose service ended and leaves the clerk without
\* customer (unless atender follows in the same step, which then finds the
\* clerk idle since the same clock and adds nothing); both set
\* ultimo_cambio_estado to the clock
C27_TiemposSoloPorAtenderYLiberar ==
    [][\A e \in DOMAIN empleados :
          LET antes == empleados[e]
              despues == empleados'[e]
              transcurrido == reloj' - antes.ultimo_cambio_estado
          IN  /\ (~Atiende(e) /\ ~Libera(e)) => despues = antes
              /\ (Atiende(e) /\ ~Libera(e)) =>
                    /\ antes.estado = "Libre"
                    /\ despues.estado = "Ocupado"
                    /\ despues.tiempo_acumulado_ocioso =
                          antes.tiempo_acumulado_ocioso + transcurrido
                    /\ despues.tiempo_acumulado_atencion =
                          antes.tiempo_acumulado_atencion
                    /\ despues.ultimo_cambio_estado = reloj'
              /\ Libera(e) =>
                    /\ antes.estado = "Ocupado"
                    /\ liberar_retorno(antes) = ProximoEvento.cliente
                    /\ despues.tiempo_acumulado_atencion =
                          antes.tiempo_acumulado_atencion + transcurrido
                    /\ despues.tiempo_acumulado_ocioso =
                          antes.tiempo_acumulado_ocioso
                    /\ despues.ultimo_cambio_estado = reloj'
                    /\ IF Atiende(e)
                       THEN /\ despues.estado = "Ocupado"
                            /\ cola_espera # <<>>
                            /\ despues.cliente_actual = Head(cola_espera)
                       ELSE /\ despues.estado = "Libre"
                            /\ despues.cliente_actual = None
                            /\ despues.hora_fin_atencion = None]_vars

\* a clerk was idle for a while, then served for a while and has just been
\* released
C27_Witness ==
    \E e \in DOMAIN empleados :
        /\ empleados[e].tiempo_acumulado_ocioso > 0
        /\ empleados[e].tiempo_acumulado_atencion > 0
        /\ empleados[e].estado = "Libre"
        /\ empleados[e].cliente_actual = None
        /\ empleados[e].ultimo_cambio_estado = reloj

\* C28: no step alters a row already in historial_filas, the customer
\* records of the row included: every step keeps the rows it finds and at
\* most appends to them
C28_FilasInmutables ==
    [][/\ Len(historial_filas') >= Len(historial_filas)
       /\ \A i \in 1..Len(historial_filas) :
             historial_filas'[i] = historial_filas[i]]_vars

\* an earlier row holds the record of a customer as it was when the row was
\* taken, and that customer has left the system since
C28_Witness ==
    \E i \in 1..Len(historial_filas) :
        \E j \in 1..Len(historial_filas[i].clientes), c \in DOMAIN clientes :
            /\ clientes[c].id = historial_filas[i].clientes[j].id
            /\ clientes[c].hora_llegada = historial_filas[i].clientes[j].hora_llegada
            /\ historial_filas[i].clientes[j].estado = "Siendo atendido"
            /\ clientes[c].estado = "Fuera del sistema"
            /\ i < Len(historial_filas)

\* ---------------------------------------------------------------------------
\* ListaEventos.cancelar_evento
\* ---------------------------------------------------------------------------

TiposCancelar == {"llegada_cliente", "fin_lectura"}
TiemposCancelar == {10, 20}
ClientesCancelar == {1, 2}

\* ListaEventos.agregar_evento with events of several types and customers
ListaAgregar ==
    /\ inserciones < MaxAgregados
    /\ \E t \in TiemposCancelar, tipo \in TiposCancelar, c \in ClientesCancelar :
          lista' = ListaAgregarEvento(lista, Evento(t, tipo, c, None, inserciones + 1))
    /\ inserciones' = inserciones + 1
    /\ cancelacion' = <<>>
    /\ UNCHANGED <<engineVars, eventos, extraidos_heap, extraidos_lista, genVars,
                   dialogoVars, ventanaVars, tkVars>>

\* one call of ListaEventos.cancelar_evento
ListaCancelar ==
    /\ \E tipo \in TiposCancelar, condicion \in Condiciones :
          /\ lista' = cancelar_evento(lista, tipo, condicion)
          /\ cancelacion' = <<tipo, condicion>>
    /\ UNCHANGED <<engineVars, eventos, inserciones, extraidos_heap,
                   extraidos_lista, genVars, dialogoVars, ventanaVars, tkVars>>

NextCancelar == ListaAgregar \/ ListaCancelar

SpecCancelar == Init /\ [][NextCancelar]_vars

\* the event is one that cancelar_evento(tipo, condicion) is to remove
ACancelar(e, tipo, condicion) ==
    /\ e.tipo = tipo
    /\ \/ condicion = "None"
       \/ condicion = "tiempo_mayor_que_10" /\ e.tiempo > 10
       \/ condicion = "cliente_es_1" /\ e.cliente = 1

\* the position of an event in a list (events differ in orden)
Posicion(l, e) == CHOOSE k \in 1..Len(l) : l[k] = e

\* C29: after cancelar_evento(tipo, condicion) the list holds exactly the
\* events it held that are not of the type or for which the condition does
\* not hold (every event of the type goes when condicion is None), each once
\* and in the relative order they had
C29_CancelaExactamente ==
    [][(cancelacion' # <<>> /\ cancelacion' # cancelacion)
          => LET tipo == cancelacion'[1]
                 condicion == cancelacion'[2]
             IN  /\ \A k \in 1..Len(lista) :
                       ACancelar(lista[k], tipo, condicion)
                          <=> ~(\E m \in 1..Len(lista') : lista'[m] = lista[k])
                 /\ \A m \in 1..Len(lista') :
                       \E k \in 1..Len(lista) : lista[k] = lista'[m]
                 /\ \A m, n \in 1..Len(lista') :
                       m < n => Posicion(lista, lista'[m]) < Posicion(lista, lista'[n])]_vars

\* a call with a condition removed the middle one of three events and left an
\* event of the same type for which the condition does not hold
C29_Witness ==
    /\ cancelacion # <<>>
    /\ cancelacion[2] # "None"
    /\ inserciones = 3
    /\ Len(lista) = 2
    /\ lista[1].orden = 1
    /\ lista[2].orden = 3
    /\ \E k \in 1..Len(lista) : lista[k].tipo = cancelacion[1]

\* C30: every customer that has departed has hora_salida >= hora_llegada
C30_SalidaDespuesDeLlegada ==
    \A c \in DOMAIN clientes :
        clientes[c].estado = "Fuera del sistema"
            => /\ clientes[c].hora_salida # None
               /\ clientes[c].hora_salida >= clientes[c].hora_llegada

\* two customers have departed, one of them after reading and returning
C30_Witness ==
    \E c, d \in DOMAIN clientes :
        /\ c # d
        /\ clientes[c].estado = "Fuera del sistema"
        /\ clientes[d].estado = "Fuera del sistema"
        /\ clientes[c].hora_salida > clientes[c].hora_llegada
        /\ clientes[d].fin_lectura # None

\* the step processes an event of the future-event list
ProcesaUnEvento ==
    /\ pc = "ejecutando"
    /\ numero_fila' = numero_fila + 1

\* C31: the clock never moves backwards: a step that processes an event sets
\* reloj to the timestamp of the dequeued event, no step lowers reloj, every
\* event a step schedules has a timestamp >= the clock of that step, and the
\* clocks of the rows of historial_filas are non-decreasing
C31_RelojNoRetrocede ==
    [][/\ ProcesaUnEvento => reloj' = ProximoEvento.tiempo
       /\ reloj' >= reloj
       /\ \A k \in 1..Len(eventos') :
             eventos'[k].orden > inserciones => eventos'[k].tiempo >= reloj'
       /\ \A i \in 1..(Len(historial_filas') - 1) :
             historial_filas'[i].reloj <= historial_filas'[i + 1].reloj]_vars

\* the clock has advanced in each of the last two steps, and an event
\* scheduled at the present clock (a search of duration 0) is pending
C31_Witness ==
    /\ Len(historial_filas) >= 3
    /\ historial_filas[Len(historial_filas) - 2].reloj
          < historial_filas[Len(historial_filas) - 1].reloj
    /\ historial_filas[Len(historial_filas) - 1].reloj < UltimaFila.reloj
    /\ UltimaFila.reloj = reloj
    /\ \E k \in 1..Len(eventos) :
          eventos[k].tipo = "fin_atencion_cliente" /\ eventos[k].tiempo = reloj

\* ---------------------------------------------------------------------------
\* ejecutar_paso called again after it has returned None
\* ---------------------------------------------------------------------------

\* Simulacion.ejecutar_paso on an engine that has already returned None: the
\* same code runs again, and returns None again by the same branch
PasoTrasRetornar ==
    /\ pc = "retornada"
    /\ Len(historial_filas) < numero_fila + 1 + MaxRellamadas
    /\ IF tope_alcanzado(Estado)
       THEN Asignar(forzar_fin(Estado))
       ELSE eventos = <<>> /\ Asignar(Estado)
    /\ pc' = pc

NextConRellamadas == Next \/ PasoTrasRetornar

SpecConRellamadas == Init /\ [][NextConRellamadas]_vars

\* C32: once ejecutar_paso has returned None, a further call returns None
\* and leaves the history, the clock and every accumulator as they were
C32_RetornaNoneSinCambios ==
    [][pc = "retornada"
          => /\ pc' = "retornada"
             /\ UNCHANGED <<historial_filas, reloj, numero_fila,
                            ac_tiempo_permanencia, total_clientes_atendidos,
                            total_clientes_leyendo, total_clientes_generados,
                            total_clientes_rechazados,
                            tiempo_biblioteca_cerrada_ac, empleados>>]_vars

\* ------------------------------------------------------------------------
\* C33: while a SimulacionThread is running the window neither starts a
\* second thread nor clears or replaces self.simulacion, so that
\* simulacion_completada runs with self.simulacion being the Simulacion the
\* finishing thread drove
\* the thread of simulation id delivers its finished signal in this step
Completa(id) == id \in threads_corriendo /\ id \notin threads_corriendo'

C33_SimulacionPropiaDelThread ==
    [][/\ Cardinality(threads_corriendo') <= 1
       /\ (threads_corriendo # {} /\ threads_corriendo' # {})
             => simulacion_id' = simulacion_id
       /\ \A id \in 1..(MaxThreads + 1) : Completa(id) => simulacion_id = id]_vars

\* ------------------------------------------------------------------------
\* C34: the counter is work-conserving: in every state between two events
\* the waiting queue is non-empty only if both clerks are busy
C34_ColaSoloConEmpleadosOcupados ==
    cola_espera # <<>> => ~HayEmpleadoLibre

\* a customer waits in the queue after a service has ended, i.e. the freed
\* clerk has taken the head of the queue and the queue is still non-empty
C34_Witness ==
    /\ pc = "ejecutando"
    /\ cola_espera # <<>>
    /\ total_clientes_atendidos + total_clientes_leyendo >= 1
    /\ ~HayEmpleadoLibre

\* ------------------------------------------------------------------------
\* C35: in every state between two events each customer of clientes_activos
\* is in exactly one place (once in cola_espera, or the current customer of
\* exactly one busy clerk, or once in clientes_leyendo); every queued, served
\* or reading customer is active; a clerk is busy exactly when it holds a
\* current customer
Veces(seq, c) == Cardinality({k \in 1..Len(seq) : seq[k] = c})
AtendidoPor(c) == {e \in 1..2 : empleados[e].cliente_actual = c}
Lugares(c) ==
    Veces(cola_espera, c) + Cardinality(AtendidoPor(c)) + Veces(clientes_leyendo, c)

C35_ClienteEnUnSoloLugar ==
    /\ \A c \in 1..Len(clientes) :
          /\ Veces(clientes_activos, c) <= 1
          /\ Lugares(c) = Veces(clientes_activos, c)
    /\ \A e \in 1..2 :
          /\ empleados[e].estado \in {"Libre", "Ocupado"}
          /\ empleados[e].estado = "Ocupado" <=> empleados[e].cliente_actual # None

\* the three places are occupied at once: a customer waits, both clerks serve
\* and a customer reads
C35_Witness ==
    /\ pc = "ejecutando"
    /\ cola_espera # <<>>
    /\ clientes_leyendo # <<>>
    /\ \A e \in 1..2 : empleados[e].estado = "Ocupado"
    /\ Len(clientes_activos) = capacidad_maxima

\* ------------------------------------------------------------------------
\* C36: in every state between two events, after iniciar and before the run
\* ends, the future-event list holds exactly one arrival, exactly one
\* fin_atencion_cliente per busy clerk (for the clerk's current customer at
\* the clerk's hora_fin_atencion), exactly one fin_lectura per reading
\* customer, and nothing else; so it is never empty
EventosDeTipo(tipo) == {k \in 1..Len(eventos) : eventos[k].tipo = tipo}
Ocupados == {e \in 1..2 : empleados[e].estado = "Ocupado"}

C36_ContenidoDeLaFEL ==
    pc = "ejecutando" =>
        /\ Cardinality(EventosDeTipo("llegada_cliente")) = 1
        /\ \A e \in Ocupados :
              \E k \in EventosDeTipo("fin_atencion_cliente") :
                 /\ eventos[k].empleado = e
                 /\ eventos[k].cliente = empleados[e].cliente_actual
                 /\ eventos[k].tiempo = empleados[e].hora_fin_atencion
        /\ Cardinality(EventosDeTipo("fin_atencion_cliente")) = Cardinality(Ocupados)
        /\ \A i \in 1..Len(clientes_leyendo) :
              \E k \in EventosDeTipo("fin_lectura") :
                 eventos[k].cliente = clientes_leyendo[i]
        /\ Cardinality(EventosDeTipo("fin_lectura")) = Len(clientes_leyendo)
        /\ Len(eventos) = 1 + Cardinality(Ocupados) + Len(clientes_leyendo)

\* the list holds the arrival, the ends of service of both clerks and the end
\* of reading of a reader, after an event of each type has been processed
C36_Witness ==
    /\ pc = "ejecutando"
    /\ Cardinality(Ocupados) = 2
    /\ clientes_leyendo # <<>>
    /\ Len(eventos) = 3 + Len(clientes_leyendo)
    /\ total_clientes_atendidos >= 1

\* ------------------------------------------------------------------------
\* C37: the customer counters are conserved in every state:
\* total_clientes_generados = total_clientes_rechazados + contador_clientes
\* and contador_clientes = total_clientes_atendidos + len(clientes_activos)
C37_ContadoresConservados ==
    /\ total_clientes_generados = total_clientes_rechazados + contador_clientes
    /\ contador_clientes = total_clientes_atendidos + Len(clientes_activos)

\* every term of the two sums is positive: a customer was rejected, one has
\* left and one is still inside
C37_Witness ==
    /\ total_clientes_rechazados >= 1
    /\ total_clientes_atendidos >= 1
    /\ Len(clientes_activos) >= 1

C39_AcumuladorCerradaMonotono ==
    [][/\ tiempo_biblioteca_cerrada_ac' >= tiempo_biblioteca_cerrada_ac
       /\ tiempo_biblioteca_cerrada_ac' >= 0
       /\ tiempo_biblioteca_cerrada_ac' <= tiempo_maximo]_vars
====
